---------------------------- MODULE Spec2Model ----------------------------
(***************************************************************************)
(* A state-machine model of the VoceVibe pipeline:                         *)
(*   - the STT worker (src/src/audio_engine.py): the audio callback, the   *)
(*     PCM queue, the consumer loop with AGC, noise gate and token filter; *)
(*   - the Fast Brain (src/src/brain_engine.py): the consumer loop, the    *)
(*     accumulation buffer, the context buffer and the LLM call;           *)
(*   - the Slow Brain (src/src/summary_engine.py);                         *)
(*   - the Supervisor (src/main.py): start, pause and the engine monitor.  *)
(*                                                                         *)
(* Text is a sequence of one-character strings, so that join, strip,       *)
(* slicing and length are computed as Python computes them.                *)
(* Amplitudes are integers in units of 1e-6 (0.04 is 40000).               *)
(* Time is an integer number of ticks of 2.5 s (7.5 s is 3 ticks).         *)
(***************************************************************************)
EXTENDS Integers, Sequences, FiniteSets, TLC

(***************************************************************************)
(* Bounds of the model (not program constants).                            *)
(***************************************************************************)
\* frames the audio device delivers in one session of SpecStt
MaxFrames == 3
\* frames the audio device delivers in one session of SpecLoad
MaxLoadFrames == 66
\* times the UI start button is accepted
MaxStarts == 2
\* tokens the STT worker emits in one session of SpecBrain
MaxTokens == 2
\* last tick of the clock
MaxTime == 3
\* ticks of the clock in a session without speech: VISUAL_INTERVAL of them
MaxSilenceTime == 24
\* ticks of the clock in a session of the Slow Brain: two VISUAL_INTERVALs
MaxSlowTime == 48
\* calls of reset_memory() in a session
MaxResets == 1
\* tokens the STT worker emits in one session of SpecWindow
MaxBurst == 1001
\* calls of send_json_prompt and of update_target
MaxPrompts == 2
MaxUpdates == 1

(***************************************************************************)
(* Program constants.                                                      *)
(***************************************************************************)
\* audio_engine.py:32  GATE_THRESHOLD = 0.04
GATE_THRESHOLD == 40000
\* audio_engine.py:58  queue.Queue(maxsize=64)
AUDIO_QUEUE_MAXSIZE == 64
\* main.py:518  text_queue = queue.Queue(): maxsize 0 means unbounded
TEXT_QUEUE_MAXSIZE == 0
\* main.py:519  summary_queue = queue.Queue()
SUMMARY_QUEUE_MAXSIZE == 0
\* audio_engine.py:337  if peak > 0.001
AGC_MIN_PEAK == 1000
\* audio_engine.py:344  target_level = 0.95
AGC_TARGET_LEVEL == 950000
\* audio_engine.py:346  gain = min(gain, 8.0)
AGC_MAX_GAIN == 8
\* audio_engine.py:348  np.clip(mono, -1.0, 1.0)
CLIP_LEVEL == 1000000

\* brain_engine.py:60  self._accumulation_timeout = 7.5 (seconds)
ACCUMULATION_TIMEOUT == 3
\* config.py:36  brain_analysis_interval = 7.5 (seconds)
BRAIN_ANALYSIS_INTERVAL == 3
\* brain_engine.py:61  self._context_window_seconds = 30.0
CONTEXT_WINDOW_SECONDS == 12
\* brain_engine.py:62  self._min_char_threshold = 15
MIN_CHAR_THRESHOLD == 15
\* brain_engine.py:51  deque(maxlen=1000)
TEXT_BUFFER_MAXLEN == 1000
\* brain_engine.py:305  prompt_data["prompt"] = text[:100]
MISSING_PROMPT_CHARS == 100
\* brain_engine.py:322  "prompt": text[:200]
FALLBACK_PROMPT_CHARS == 200
\* summary_engine.py:48  self.SUMMARY_INTERVAL = 30.0
SUMMARY_INTERVAL == 12
\* summary_engine.py:49  self.VISUAL_INTERVAL = 60.0
VISUAL_INTERVAL == 24
\* main.py:325  CTkSlider(..., from_=30, to=300, ...): the history slider,
\* in seconds
HISTORY_SLIDER_FROM == 30
HISTORY_SLIDER_TO == 300
\* main.py:335  CTkSlider(..., from_=2, to=60, ...): the rate slider, in
\* seconds
RATE_SLIDER_FROM == 2
RATE_SLIDER_TO == 60

\* config.py:19-20  the broadcaster's default target
OSC_TARGET_IP == "192.168.1.77"
OSC_TARGET_PORT == 2992

Stages == {"stt", "fast", "slow"}

\* Python's None, and a value that is not None
None == [some |-> FALSE]
Some(v) == [some |-> TRUE, val |-> v]

(***************************************************************************)
(* Text helpers (Python str semantics on sequences of characters).         *)
(***************************************************************************)
\* the sentencepiece word-start marker U+2581
MARKER == "_"

Whitespace == {" ", "\t", "\n"}

\* str.replace(MARKER, " ") on single characters
ReplaceMarker(s) == [i \in 1..Len(s) |-> IF s[i] = MARKER THEN " " ELSE s[i]]

RECURSIVE LStrip(_)
LStrip(s) == IF s # <<>> /\ Head(s) \in Whitespace THEN LStrip(Tail(s)) ELSE s

RECURSIVE RStrip(_)
RStrip(s) ==
    IF s # <<>> /\ s[Len(s)] \in Whitespace
    THEN RStrip(SubSeq(s, 1, Len(s) - 1))
    ELSE s

\* str.strip()
Strip(s) == RStrip(LStrip(s))

\* s[:n]
Prefix(s, n) == SubSeq(s, 1, IF Len(s) < n THEN Len(s) ELSE n)

\* " ".join(parts), computed by halves
RECURSIVE Join(_)
Join(parts) ==
    IF parts = <<>> THEN <<>>
    ELSE IF Len(parts) = 1 THEN parts[1]
    ELSE LET half == Len(parts) \div 2
         IN  Join(SubSeq(parts, 1, half)) \o <<" ">>
                 \o Join(SubSeq(parts, half + 1, Len(parts)))

Min(a, b) == IF a < b THEN a ELSE b

(***************************************************************************)
(* queue.Queue                                                             *)
(***************************************************************************)
QueueFull_above(q, maxsize) == maxsize > 0 /\ Len(q) > maxsize

\* Queue.full(): maxsize <= 0 is an unbounded queue
QueueFull(q, maxsize) == maxsize > 0 /\ Len(q) >= maxsize

(***************************************************************************)
(* STT worker: pure parts                                                  *)
(***************************************************************************)
\* text_tokenizer.id_to_piece: the vocabulary of the external tokenizer,
\* here five pieces that cover the cases of the token filter
IdToPiece(token_id) ==
    CASE token_id = 0 -> <<"<", "u", ">">>
      [] token_id = 3 -> <<"<", "p", ">">>
      [] token_id = 5 -> <<MARKER>>
      [] token_id = 7 -> <<MARKER, "H", "i">>
      [] token_id = 8 -> <<"o", "k", ".">>
      [] OTHER -> <<MARKER, " ">>

\* the ids gen.step can return in the model
TokenIds == {0, 3, 5, 7, 8}

\* the ids _handle_text_token drops before decoding
SpecialTokenIds == {0, 3}

CleanToken_unfiltered(token_id) ==
    LET cleaned == Strip(ReplaceMarker(IdToPiece(token_id)))
    IN  IF cleaned = <<>> THEN None ELSE Some(cleaned)

\* _handle_text_token up to the emptiness test: the cleaned piece of a token
\* id, or None when the token is filtered
CleanToken(token_id) ==
    IF token_id \in SpecialTokenIds THEN None
    ELSE LET cleaned == Strip(ReplaceMarker(IdToPiece(token_id)))
         IN  IF cleaned = <<>> THEN None ELSE Some(cleaned)

\* the peak of the frame after AGC: gain = min(0.95 / (peak + 1e-6), 8.0),
\* the samples scaled by it and clipped to [-1, 1].  With T the target level,
\* peak * T / (peak + 1) rounded down is T - ceil(T / (peak + 1)).
PostAgcLevel(peak) ==
    IF peak > AGC_MIN_PEAK
    THEN IF AGC_TARGET_LEVEL >= AGC_MAX_GAIN * (peak + 1)
         THEN Min(AGC_MAX_GAIN * peak, CLIP_LEVEL)
         ELSE Min(AGC_TARGET_LEVEL
                    - ((AGC_TARGET_LEVEL + peak) \div (peak + 1)),
                  CLIP_LEVEL)
    ELSE peak

GateDiscards_quiet(level) == level < GATE_THRESHOLD \div 10

\* the hard noise gate: if level < GATE_THRESHOLD: continue
GateDiscards(level) == level < GATE_THRESHOLD

\* text_queue.put_nowait(cleaned); on queue.Full: get_nowait() then
\* put_nowait(cleaned).  The Full branch needs a bounded queue.
PutDropOldest(q, maxsize, x) ==
    IF QueueFull(q, maxsize)
    THEN IF q = <<>> THEN q ELSE Append(Tail(q), x)
    ELSE Append(q, x)

(***************************************************************************)
(* State                                                                   *)
(***************************************************************************)
VARIABLES
    \* Supervisor (VoiceVibeApp)
    is_running,         \* self.is_running
    is_stopping,        \* self.is_stopping
    starts,             \* accepted clicks of the start button
    start_pc,           \* position of the UI thread inside _start_engines
    pause_pc,           \* position of the _stop_engines_thread thread
    pause_stage,        \* index in StopOrder of the stage being stopped
    osc_connected,      \* OSCClient._connected
    watch_found,        \* stages the monitor found not alive at its last tick
    \* the three stage threads, by stage
    pc,                 \* position of the stage's thread
    running,            \* the stage's _running flag
    stop_event,         \* the stage's _stop_event
    stop_called,        \* stop() has been called on the stage's current object
    \* STT worker (AudioEngine)
    audio_queue,        \* self.audio_queue, frames oldest first
    moshi_loaded,       \* self._moshi_loaded
    stream,             \* self._stream: "none" or "open"
    silence_counter,    \* self._silence_counter
    chunk,              \* the frame the consumer took from audio_queue
    cb_pc,              \* position of the audio callback
    cb_frame,           \* indata of the callback in progress
    next_frame,         \* sequence number of the next frame of the device
    \* what the STT worker did (observations)
    tokenized,          \* post-AGC levels of the frames given to the tokenizer
    lm_stepped,         \* post-AGC levels of the frames given to gen.step
    discarded,          \* post-AGC levels of the frames the gate discarded
    emitted,            \* tokens put on the text queue: [id, text, level,
                        \* peak], level the peak after AGC, peak before it
    transcribed,        \* texts passed to transcription_callback
    cb_dropped,         \* sequence numbers the callback removed from the queue
    cb_lost,            \* sequence numbers of new frames the callback gave up
    chunk_errors,       \* sequence numbers of the frames whose processing
                        \* raised ("Error processing audio chunk" logged)
    stream_error,       \* "CRITICAL audio stream error" was logged
    \* channels
    text_queue,         \* STT -> Fast Brain
    summary_queue,      \* STT -> Slow Brain
    stt_sent,           \* tokens put on text_queue since the session began
    \* the clock
    now,                \* time.time(), in ticks
    \* Fast Brain (BrainEngine)
    text_buffer,             \* self._text_buffer: <<timestamp, text>> pairs
    accumulation_buffer,     \* self._accumulation_buffer
    accumulation_start_time, \* self._accumulation_start_time
    accumulation_lock,       \* holder of self._accumulation_lock
    buffer_lock,             \* holder of self._buffer_lock
    last_analysis_time,      \* run(): last_analysis_time
    fb_current_time,         \* run(): current_time of the iteration
    fb_collect_time,         \* _collect_recent_text: current_time
    fb_new_texts,            \* _collect_recent_text: new_texts
    fb_recent_text,          \* run(): recent_text
    fb_should_analyze,       \* run(): should_analyze
    fb_context_text,         \* _analyze_with_ollama: context_text
    fb_prompt_data,          \* run(): prompt_data
    \* what the Fast Brain did in the current iteration (observations)
    fb_llm_text,        \* the text given to ollama.chat, or None
    fb_llm_response,    \* what ollama.chat answered, or None
    fb_osc_prompt,      \* the argument of osc_client.send_json_prompt, or None
    fb_cb_prompt,       \* the argument of prompt_callback, or None
    \* what stop() of the Fast Brain sent (observations)
    stop_llm_text,      \* the text stop() gave to the LLM, or None
    stop_osc_prompt,    \* the argument of stop()'s send_json_prompt, or None
    \* Slow Brain (SummaryEngine)
    full_transcript,    \* self.full_transcript
    last_summary_time,  \* self.last_summary_time
    last_visual_time,   \* self.last_visual_time
    slow_now,           \* run(): now
    summary_calls,      \* the LLM calls made: [kind, start] (observation)
    \* Supervisor: state kept over a pause
    saved_brain_state,  \* self.saved_brain_state
    saved_summary_state, \* self.saved_summary_state
    \* Supervisor: the settings of the two sliders, in seconds
    history_seconds,    \* self.config.history_seconds
    generation_rate,    \* self.config.generation_rate
    resets,             \* calls of reset_memory() so far (observation)
    pause_transcript,   \* the Slow Brain's transcript when pause was last
                        \* requested (observation)
    quit_pc,            \* "idle", "thread" while _quit_thread runs, "done"
                        \* once _finalize_quit destroyed the window
    \* the broadcaster (OSCClient)
    osc_client,         \* self._client: None, or the UDP client and the
                        \* address it was created for
    target_ip,          \* self.target_ip
    target_port,        \* self.target_port
    upd_pc,             \* position of the thread inside update_target
    upd_was_connected,  \* update_target: was_connected
    upd_ip,             \* update_target: ip
    upd_port,           \* update_target: port
    updates,            \* calls of update_target so far
    sjp_pc,             \* send_json_prompt: 0 outside a call, else the
                        \* number of the send it is about to issue
    sjp_data,           \* send_json_prompt: prompt_data
    sjp_connected,      \* _connected when the call began (observation)
    prompts,            \* calls of send_json_prompt so far
    osc_wire,           \* the messages the current call handed to
                        \* _client.send_message: [address, value, to]
    osc_log             \* what the sends of the current call printed:
                        \* [address, kind, swap], swap telling that an
                        \* update_target was between its disconnect() and
                        \* its connect() (observation)

sup_vars == <<is_running, is_stopping, starts, start_pc, pause_pc,
              pause_stage, osc_connected, watch_found>>
life_vars == <<pc, running, stop_event, stop_called>>
stt_vars == <<audio_queue, moshi_loaded, stream, silence_counter, chunk,
              cb_pc, cb_frame, next_frame>>
stt_obs == <<tokenized, lm_stepped, discarded, emitted, transcribed,
             cb_dropped, cb_lost, chunk_errors, stream_error>>
chan_vars == <<text_queue, summary_queue, stt_sent>>
fast_vars == <<text_buffer, accumulation_buffer, accumulation_start_time,
               accumulation_lock, buffer_lock, last_analysis_time, fb_current_time,
               fb_collect_time, fb_new_texts, fb_recent_text,
               fb_should_analyze, fb_context_text, fb_prompt_data>>
fast_obs == <<fb_llm_text, fb_llm_response, fb_osc_prompt, fb_cb_prompt,
              stop_llm_text, stop_osc_prompt>>
slow_vars == <<full_transcript, last_summary_time, last_visual_time,
               slow_now, summary_calls>>
saved_vars == <<saved_brain_state, saved_summary_state>>
ui_vars == <<history_seconds, generation_rate, resets, pause_transcript,
             quit_pc>>
osc_vars == <<target_ip, target_port, upd_pc, upd_was_connected, upd_ip,
              upd_port, updates, sjp_pc, sjp_data, sjp_connected, prompts,
              osc_wire, osc_log>>

vars == <<sup_vars, life_vars, stt_vars, stt_obs, chan_vars, now, fast_vars,
          fast_obs, slow_vars, saved_vars, ui_vars, osc_client, osc_vars>>

NoFrame == [seq |-> 0, peak |-> 0]

\* threading.Thread.is_alive(): started and run() not yet returned
Alive(s) == pc[s] \notin {"none", "done"}

\* the state after VoiceVibeApp.__init__: no engine exists yet
Init ==
    /\ is_running = FALSE
    /\ is_stopping = FALSE
    /\ starts = 0
    /\ start_pc = "idle"
    /\ pause_pc = "idle"
    /\ pause_stage = 1
    /\ osc_connected = FALSE
    /\ watch_found = {}
    /\ pc = [s \in Stages |-> "none"]
    /\ running = [s \in Stages |-> FALSE]
    /\ stop_event = [s \in Stages |-> FALSE]
    /\ stop_called = [s \in Stages |-> FALSE]
    /\ audio_queue = <<>>
    /\ moshi_loaded = FALSE
    /\ stream = "none"
    /\ silence_counter = 0
    /\ chunk = NoFrame
    /\ cb_pc = "idle"
    /\ cb_frame = NoFrame
    /\ next_frame = 1
    /\ tokenized = {}
    /\ lm_stepped = {}
    /\ discarded = {}
    /\ emitted = <<>>
    /\ transcribed = <<>>
    /\ cb_dropped = {}
    /\ cb_lost = {}
    /\ chunk_errors = {}
    /\ stream_error = FALSE
    /\ text_queue = <<>>
    /\ summary_queue = <<>>
    /\ stt_sent = 0
    /\ now = 0
    /\ text_buffer = <<>>
    /\ accumulation_buffer = <<>>
    /\ accumulation_start_time = None
    /\ accumulation_lock = "free"
    /\ buffer_lock = "free"
    /\ last_analysis_time = 0
    /\ fb_current_time = 0
    /\ fb_collect_time = 0
    /\ fb_new_texts = <<>>
    /\ fb_recent_text = <<>>
    /\ fb_should_analyze = FALSE
    /\ fb_context_text = <<>>
    /\ fb_prompt_data = None
    /\ fb_llm_text = None
    /\ fb_llm_response = None
    /\ fb_osc_prompt = None
    /\ fb_cb_prompt = None
    /\ stop_llm_text = None
    /\ stop_osc_prompt = None
    /\ full_transcript = <<>>
    /\ last_summary_time = 0
    /\ last_visual_time = 0
    /\ slow_now = 0
    /\ summary_calls = <<>>
    /\ saved_brain_state = None
    /\ saved_summary_state = None
    /\ history_seconds = HISTORY_SLIDER_FROM
    /\ generation_rate = RATE_SLIDER_FROM
    /\ resets = 0
    /\ pause_transcript = <<>>
    /\ quit_pc = "idle"
    /\ osc_client = None
    /\ target_ip = OSC_TARGET_IP
    /\ target_port = OSC_TARGET_PORT
    /\ upd_pc = "idle"
    /\ upd_was_connected = FALSE
    /\ upd_ip = OSC_TARGET_IP
    /\ upd_port = OSC_TARGET_PORT
    /\ updates = 0
    /\ sjp_pc = 0
    /\ sjp_data = [prompt |-> ""]
    /\ sjp_connected = FALSE
    /\ prompts = 0
    /\ osc_wire = <<>>
    /\ osc_log = <<>>

(***************************************************************************)
(* STT worker: the audio callback (the audio subsystem's thread)           *)
(***************************************************************************)
\* _audio_callback up to its first put: the device delivers a frame whose
\* peak is one of `peaks`; the frame is ignored unless the worker is
\* running with the model loaded
AudioCallbackEnter(bound, peaks) ==
    /\ cb_pc = "idle"
    /\ stream = "open"
    /\ next_frame <= bound
    /\ \E p \in peaks :
         IF ~running["stt"] \/ ~moshi_loaded
         THEN /\ cb_pc' = "idle"
              /\ cb_frame' = cb_frame
         ELSE /\ cb_pc' = "put"
              /\ cb_frame' = [seq |-> next_frame, peak |-> p]
    /\ next_frame' = next_frame + 1
    /\ UNCHANGED <<audio_queue, moshi_loaded, stream, silence_counter, chunk>>
    /\ UNCHANGED <<sup_vars, life_vars, stt_obs, chan_vars>>
    /\ UNCHANGED <<now, ui_vars, osc_client, osc_vars, fast_vars, fast_obs, slow_vars, saved_vars>>

\* audio_queue.put_nowait(indata.copy()), which raises queue.Full
AudioCallbackPut ==
    /\ cb_pc = "put"
    /\ IF QueueFull(audio_queue, AUDIO_QUEUE_MAXSIZE)
       THEN /\ cb_pc' = "drop"
            /\ UNCHANGED <<audio_queue, cb_frame>>
       ELSE /\ audio_queue' = Append(audio_queue, cb_frame)
            /\ cb_pc' = "idle"
            /\ cb_frame' = NoFrame
    /\ UNCHANGED <<moshi_loaded, stream, silence_counter, chunk, next_frame>>
    /\ UNCHANGED <<sup_vars, life_vars, stt_obs, chan_vars>>
    /\ UNCHANGED <<now, ui_vars, osc_client, osc_vars, fast_vars, fast_obs, slow_vars, saved_vars>>

DropOldest_newest(q) == SubSeq(q, 1, Len(q) - 1)

\* Queue.get_nowait() removes the head
DropOldest(q) == Tail(q)

\* Queue.get_nowait() returns the head
RemovedBy(q) == Head(q)

\* except queue.Full: _ = audio_queue.get_nowait(), which raises queue.Empty
AudioCallbackDrop ==
    /\ cb_pc = "drop"
    /\ IF audio_queue # <<>>
       THEN /\ cb_dropped' = cb_dropped \cup {RemovedBy(audio_queue).seq}
            /\ audio_queue' = DropOldest(audio_queue)
       ELSE UNCHANGED <<audio_queue, cb_dropped>>
    /\ cb_pc' = "reput"
    /\ UNCHANGED <<moshi_loaded, stream, silence_counter, chunk, cb_frame,
                   next_frame>>
    /\ UNCHANGED <<tokenized, lm_stepped, discarded, emitted, transcribed,
                   cb_lost, chunk_errors, stream_error>>
    /\ UNCHANGED <<sup_vars, life_vars, chan_vars>>
    /\ UNCHANGED <<now, ui_vars, osc_client, osc_vars, fast_vars, fast_obs, slow_vars, saved_vars>>

\* the second audio_queue.put_nowait(indata.copy()); on queue.Full: pass
AudioCallbackReput ==
    /\ cb_pc = "reput"
    /\ IF QueueFull(audio_queue, AUDIO_QUEUE_MAXSIZE)
       THEN /\ cb_lost' = cb_lost \cup {cb_frame.seq}
            /\ UNCHANGED audio_queue
       ELSE /\ audio_queue' = Append(audio_queue, cb_frame)
            /\ UNCHANGED cb_lost
    /\ cb_pc' = "idle"
    /\ cb_frame' = NoFrame
    /\ UNCHANGED <<moshi_loaded, stream, silence_counter, chunk, next_frame>>
    /\ UNCHANGED <<tokenized, lm_stepped, discarded, emitted, transcribed,
                   cb_dropped, chunk_errors, stream_error>>
    /\ UNCHANGED <<sup_vars, life_vars, chan_vars>>
    /\ UNCHANGED <<now, ui_vars, osc_client, osc_vars, fast_vars, fast_obs, slow_vars, saved_vars>>

(***************************************************************************)
(* STT worker: the thread (AudioEngine.run)                                *)
(***************************************************************************)
\* run(): if not self._moshi_loaded: self._load_moshi_model() begins
AudioRunBegin ==
    /\ pc["stt"] = "started"
    /\ pc' = [pc EXCEPT !["stt"] = IF moshi_loaded THEN "set_running"
                                   ELSE "loading"]
    /\ UNCHANGED <<running, stop_event, stop_called>>
    /\ UNCHANGED <<sup_vars, stt_vars, stt_obs, chan_vars>>
    /\ UNCHANGED <<now, ui_vars, osc_client, osc_vars, fast_vars, fast_obs, slow_vars, saved_vars>>

\* _load_moshi_model returns with _moshi_loaded = True, or raises (a
\* download or weight error), which ends run() before its try block
AudioLoadModel ==
    /\ pc["stt"] = "loading"
    /\ \E ok \in BOOLEAN :
         IF ok
         THEN /\ moshi_loaded' = TRUE
              /\ pc' = [pc EXCEPT !["stt"] = "set_running"]
         ELSE /\ moshi_loaded' = moshi_loaded
              /\ pc' = [pc EXCEPT !["stt"] = "done"]
    /\ UNCHANGED <<running, stop_event, stop_called>>
    /\ UNCHANGED <<audio_queue, stream, silence_counter, chunk, cb_pc,
                   cb_frame, next_frame>>
    /\ UNCHANGED <<sup_vars, stt_obs, chan_vars>>
    /\ UNCHANGED <<now, ui_vars, osc_client, osc_vars, fast_vars, fast_obs, slow_vars, saved_vars>>

\* self._running = True
AudioRunSetRunning ==
    /\ pc["stt"] = "set_running"
    /\ running' = [running EXCEPT !["stt"] = TRUE]
    /\ pc' = [pc EXCEPT !["stt"] = "clear_event"]
    /\ UNCHANGED <<stop_event, stop_called>>
    /\ UNCHANGED <<sup_vars, stt_vars, stt_obs, chan_vars>>
    /\ UNCHANGED <<now, ui_vars, osc_client, osc_vars, fast_vars, fast_obs, slow_vars, saved_vars>>

\* self._stop_event.clear()
AudioRunClearEvent ==
    /\ pc["stt"] = "clear_event"
    /\ stop_event' = [stop_event EXCEPT !["stt"] = FALSE]
    /\ pc' = [pc EXCEPT !["stt"] = "open"]
    /\ UNCHANGED <<running, stop_called>>
    /\ UNCHANGED <<sup_vars, stt_vars, stt_obs, chan_vars>>
    /\ UNCHANGED <<now, ui_vars, osc_client, osc_vars, fast_vars, fast_obs, slow_vars, saved_vars>>

\* sd.InputStream(...) and self._stream.start(); a device error is caught
\* by except Exception and leads to _cleanup
AudioOpenStream ==
    /\ pc["stt"] = "open"
    /\ \E ok \in BOOLEAN :
         IF ok
         THEN /\ stream' = "open"
              /\ pc' = [pc EXCEPT !["stt"] = "loop"]
              /\ UNCHANGED stream_error
         ELSE /\ stream' = stream
              /\ pc' = [pc EXCEPT !["stt"] = "cleanup"]
              /\ stream_error' = TRUE
    /\ UNCHANGED <<running, stop_event, stop_called>>
    /\ UNCHANGED <<audio_queue, moshi_loaded, silence_counter, chunk, cb_pc,
                   cb_frame, next_frame>>
    /\ UNCHANGED <<tokenized, lm_stepped, discarded, emitted, transcribed,
                   cb_dropped, cb_lost, chunk_errors>>
    /\ UNCHANGED <<sup_vars, chan_vars>>
    /\ UNCHANGED <<now, ui_vars, osc_client, osc_vars, fast_vars, fast_obs, slow_vars, saved_vars>>

\* the loop condition of a stage: self._running and not
\* self._stop_event.is_set()
LoopGuard(s) == running[s] /\ ~stop_event[s]

\* while self._running and not self._stop_event.is_set()
AudioLoopCheck ==
    /\ pc["stt"] = "loop"
    /\ pc' = [pc EXCEPT !["stt"] = IF LoopGuard("stt") THEN "get"
                                   ELSE "cleanup"]
    /\ UNCHANGED <<running, stop_event, stop_called>>
    /\ UNCHANGED <<sup_vars, stt_vars, stt_obs, chan_vars>>
    /\ UNCHANGED <<now, ui_vars, osc_client, osc_vars, fast_vars, fast_obs, slow_vars, saved_vars>>

\* chunk = self.audio_queue.get(timeout=0.1); on queue.Empty: continue
AudioGet ==
    /\ pc["stt"] = "get"
    /\ IF audio_queue # <<>>
       THEN /\ chunk' = Head(audio_queue)
            /\ audio_queue' = Tail(audio_queue)
            /\ pc' = [pc EXCEPT !["stt"] = "process"]
       ELSE /\ UNCHANGED <<chunk, audio_queue>>
            /\ pc' = [pc EXCEPT !["stt"] = "loop"]
    /\ UNCHANGED <<running, stop_event, stop_called>>
    /\ UNCHANGED <<moshi_loaded, stream, silence_counter, cb_pc, cb_frame,
                   next_frame>>
    /\ UNCHANGED <<sup_vars, stt_obs, chan_vars>>
    /\ UNCHANGED <<now, ui_vars, osc_client, osc_vars, fast_vars, fast_obs, slow_vars, saved_vars>>

\* what _process_audio_chunk can meet besides a token id: get_encoded()
\* returns None, gen.step returns None, audio_tokenizer.encode raises,
\* gen.step raises
NotEncoded == -1
NoToken == -2
EncodeRaises == -3
StepRaises == -4
\* a statement of the loop body outside _process_audio_chunk raises (the
\* conversion to mono of a malformed frame, a log callback)
LoopRaises == -5

\* an exception that leaves _process_audio_chunk and reaches run()
AfterChunkError_propagated == "cleanup"

\* where run() goes on after the except Exception of _process_audio_chunk
\* logged the error: the call returns and the loop continues
AfterChunkError == "loop"

\* _handle_text_token(token_id) for a frame of post-AGC level `level`
HandleTextToken(token_id, level) ==
    LET cleaned == CleanToken(token_id) IN
    IF cleaned = None
    THEN UNCHANGED <<text_queue, stt_sent, emitted, transcribed>>
    ELSE /\ text_queue' = PutDropOldest(text_queue, TEXT_QUEUE_MAXSIZE,
                                        cleaned.val)
         /\ stt_sent' = stt_sent + 1
         /\ emitted' = Append(emitted, [id |-> token_id, text |-> cleaned.val,
                                        level |-> level,
                                        peak |-> chunk.peak,
                                        seq |-> chunk.seq])
         /\ transcribed' = Append(transcribed, cleaned.val)

\* the loop body after the get: AGC, noise gate, _process_audio_chunk
\* (encode, get_encoded, gen.step, _handle_text_token)
AudioProcess(outcomes) ==
    /\ pc["stt"] = "process"
    /\ LET level == PostAgcLevel(chunk.peak) IN
       IF ~moshi_loaded
       THEN /\ UNCHANGED <<silence_counter, stt_obs, text_queue, stt_sent>>
            /\ pc' = [pc EXCEPT !["stt"] = "loop"]
       ELSE
         \/ /\ LoopRaises \in outcomes
            /\ stream_error' = TRUE
            /\ pc' = [pc EXCEPT !["stt"] = "cleanup"]
            /\ UNCHANGED <<silence_counter, tokenized, lm_stepped, discarded,
                           emitted, transcribed, text_queue, stt_sent,
                           chunk_errors>>
         \/ /\ GateDiscards(level)
            /\ silence_counter' = silence_counter + 1
            /\ discarded' = discarded \cup {level}
            /\ pc' = [pc EXCEPT !["stt"] = "loop"]
            /\ UNCHANGED <<tokenized, lm_stepped, emitted, transcribed,
                           text_queue, stt_sent, chunk_errors, stream_error>>
         \/ /\ ~GateDiscards(level)
            /\ silence_counter' = 0
            /\ tokenized' = tokenized \cup {level}
            /\ UNCHANGED <<discarded, stream_error>>
            /\ \E r \in outcomes \ {LoopRaises} :
                 /\ chunk_errors' = IF r \in {EncodeRaises, StepRaises}
                                    THEN chunk_errors \cup {chunk.seq}
                                    ELSE chunk_errors
                 /\ pc' = [pc EXCEPT !["stt"] =
                              IF r \in {EncodeRaises, StepRaises}
                              THEN AfterChunkError ELSE "loop"]
                 /\ IF r \in {NotEncoded, EncodeRaises}
                    THEN UNCHANGED <<lm_stepped, emitted, transcribed,
                                     text_queue, stt_sent>>
                    ELSE /\ lm_stepped' = lm_stepped \cup {level}
                         /\ IF r \in {NoToken, StepRaises}
                            THEN UNCHANGED <<emitted, transcribed, text_queue,
                                             stt_sent>>
                            ELSE HandleTextToken(r, level)
    /\ chunk' = NoFrame
    /\ UNCHANGED <<cb_dropped, cb_lost, summary_queue>>
    /\ UNCHANGED <<running, stop_event, stop_called>>
    /\ UNCHANGED <<audio_queue, moshi_loaded, stream, cb_pc, cb_frame,
                   next_frame>>
    /\ UNCHANGED sup_vars
    /\ UNCHANGED <<now, ui_vars, osc_client, osc_vars, fast_vars, fast_obs, slow_vars, saved_vars>>

\* a cleanup that leaves the stream as it is
ClosedStream_kept(s) == s

\* _cleanup on the stream handle: if self._stream: stop(), close() (both
\* ignore the errors of the audio library), finally self._stream = None
ClosedStream(s) == "none"

\* finally: self._cleanup(): _running = False, the stream stopped, closed
\* and cleared
AudioCleanup ==
    /\ pc["stt"] = "cleanup"
    /\ running' = [running EXCEPT !["stt"] = FALSE]
    /\ stream' = ClosedStream(stream)
    /\ pc' = [pc EXCEPT !["stt"] = "done"]
    /\ UNCHANGED <<stop_event, stop_called>>
    /\ UNCHANGED <<audio_queue, moshi_loaded, silence_counter, chunk, cb_pc,
                   cb_frame, next_frame>>
    /\ UNCHANGED <<sup_vars, stt_obs, chan_vars>>
    /\ UNCHANGED <<now, ui_vars, osc_client, osc_vars, fast_vars, fast_obs, slow_vars, saved_vars>>

(***************************************************************************)
(* The clock and the token channel seen from the brains                    *)
(***************************************************************************)
\* time.time() advances, up to a bound of the session
TickTo(bound) ==
    /\ now < bound
    /\ now' = now + 1
    /\ UNCHANGED <<sup_vars, life_vars, stt_vars, stt_obs, chan_vars,
                   fast_vars, fast_obs, slow_vars, saved_vars, ui_vars, osc_client, osc_vars>>

Tick == TickTo(MaxTime)

\* the cleaned tokens the STT worker emits in SpecBrain: a short word, a
\* sentence end, and a word of MIN_CHAR_THRESHOLD characters
BrainTokens ==
    { <<"H", "i">>,
      <<"o", "k", ".">>,
      <<"a", "b", "c", "d", "e", "f", "g", "h", "i", "j", "k", "l", "m",
        "n", "o">> }

\* _handle_text_token from its put on: the STT worker emits a cleaned token
\* (the frames that produced it are left out)
SttPutToken(texts) ==
    /\ Alive("stt")
    /\ stt_sent < MaxTokens
    /\ \E t \in texts :
         text_queue' = PutDropOldest(text_queue, TEXT_QUEUE_MAXSIZE, t)
    /\ stt_sent' = stt_sent + 1
    /\ UNCHANGED summary_queue
    /\ UNCHANGED <<sup_vars, life_vars, stt_vars, stt_obs, now, ui_vars, osc_client, osc_vars, fast_vars,
                   fast_obs, slow_vars, saved_vars>>

(***************************************************************************)
(* Fast Brain: pure parts                                                  *)
(***************************************************************************)
\* _add_to_buffer on a deque(maxlen=1000)
AddToBuffer(buf, t, text) ==
    LET b == Append(buf, <<t, text>>)
    IN  IF Len(b) > TEXT_BUFFER_MAXLEN THEN Tail(b) ELSE b

\* the texts of the entries with timestamp >= cutoff, in order
RecentTexts(buf, cutoff) ==
    LET recent == SelectSeq(buf, LAMBDA entry : entry[1] >= cutoff)
    IN  [i \in 1..Len(recent) |-> recent[i][2]]

\* _get_context_window at time t
GetContextWindow(buf, t) == Join(RecentTexts(buf, t - CONTEXT_WINDOW_SECONDS))

SentenceEnd == {".", "!", "?"}

\* is_complete_sentence of _collect_recent_text (computed, never used)
IsCompleteSentence(buf) ==
    LET last_text == Strip(buf[Len(buf)])
    IN  last_text # <<>> /\ last_text[Len(last_text)] \in SentenceEnd

\* the decision by the length alone
ShouldAnalyze_length(buf, start, t) ==
    Len(Join(buf)) >= MIN_CHAR_THRESHOLD

\* should_analyze of _collect_recent_text for a non-empty buffer
ShouldAnalyze(buf, start, t) ==
    \/ (start # None /\ t - start.val >= ACCUMULATION_TIMEOUT)
    \/ Len(Join(buf)) >= MIN_CHAR_THRESHOLD

\* the answers of ollama.chat in the model: three JSON objects (complete,
\* empty, with empty strings), text that is no JSON, a JSON value that is
\* no object, and an exception
LlmObjects ==
    { [kind |-> "object", prompt |-> Some(<<"p">>), style |-> Some("noir"),
       mood |-> Some("calm")],
      [kind |-> "object", prompt |-> None, style |-> None, mood |-> None],
      [kind |-> "object", prompt |-> Some(<<>>), style |-> Some(""),
       mood |-> Some("")] }

LlmFailures ==
    { [kind |-> k, prompt |-> None, style |-> None, mood |-> None] :
        k \in {"garbage", "nonobject", "error"} }

LlmResponses == LlmObjects \cup LlmFailures

\* the except json.JSONDecodeError fallback
FallbackPrompt(text) ==
    [prompt |-> Prefix(text, FALLBACK_PROMPT_CHARS), style |-> "abstract",
     mood |-> "dynamic"]

\* _analyze_with_ollama after ollama.chat: json.loads, the isinstance test
\* (its ValueError is no JSONDecodeError, so the outer except Exception
\* catches it and None is returned), the defaults of missing keys
ParseResponse(resp, text) ==
    CASE resp.kind = "error" -> None
      [] resp.kind = "nonobject" -> None
      [] resp.kind = "garbage" -> Some(FallbackPrompt(text))
      [] OTHER ->
           Some([prompt |-> IF resp.prompt = None
                            THEN Prefix(text, MISSING_PROMPT_CHARS)
                            ELSE resp.prompt.val,
                 style |-> IF resp.style = None THEN "abstract"
                           ELSE resp.style.val,
                 mood |-> IF resp.mood = None THEN "dynamic"
                          ELSE resp.mood.val])

(***************************************************************************)
(* Fast Brain: the thread (BrainEngine.run)                                *)
(***************************************************************************)
\* self._running = True
FastRunSetRunning ==
    /\ pc["fast"] = "started"
    /\ running' = [running EXCEPT !["fast"] = TRUE]
    /\ pc' = [pc EXCEPT !["fast"] = "clear_event"]
    /\ UNCHANGED <<stop_event, stop_called>>
    /\ UNCHANGED <<sup_vars, stt_vars, stt_obs, chan_vars, now, ui_vars, osc_client, osc_vars, fast_vars,
                   fast_obs, slow_vars, saved_vars>>

\* self._stop_event.clear()
FastRunClearEvent ==
    /\ pc["fast"] = "clear_event"
    /\ stop_event' = [stop_event EXCEPT !["fast"] = FALSE]
    /\ pc' = [pc EXCEPT !["fast"] = "init_time"]
    /\ UNCHANGED <<running, stop_called>>
    /\ UNCHANGED <<sup_vars, stt_vars, stt_obs, chan_vars, now, ui_vars, osc_client, osc_vars, fast_vars,
                   fast_obs, slow_vars, saved_vars>>

\* _check_ollama_model(), then last_analysis_time = time.time()
FastRunInitTime ==
    /\ pc["fast"] = "init_time"
    /\ last_analysis_time' = now
    /\ pc' = [pc EXCEPT !["fast"] = "loop"]
    /\ UNCHANGED <<running, stop_event, stop_called>>
    /\ UNCHANGED <<text_buffer, accumulation_buffer, accumulation_start_time,
                   accumulation_lock, buffer_lock, fb_current_time, fb_collect_time,
                   fb_new_texts, fb_recent_text, fb_should_analyze,
                   fb_context_text, fb_prompt_data>>
    /\ UNCHANGED <<sup_vars, stt_vars, stt_obs, chan_vars, now, ui_vars, osc_client, osc_vars, fast_obs>>
    /\ UNCHANGED <<slow_vars, saved_vars>>

\* while self._running and not self._stop_event.is_set():
\*     current_time = time.time()
\* (a false condition leads to the finally block and the end of run())
FastLoopCheck ==
    /\ pc["fast"] = "loop"
    /\ IF LoopGuard("fast")
       THEN /\ pc' = [pc EXCEPT !["fast"] = "collect"]
            /\ fb_current_time' = now
            /\ fb_prompt_data' = None
            /\ fb_llm_text' = None
            /\ fb_llm_response' = None
            /\ fb_osc_prompt' = None
            /\ fb_cb_prompt' = None
       ELSE /\ pc' = [pc EXCEPT !["fast"] = "done"]
            /\ UNCHANGED <<fb_current_time, fb_prompt_data, fb_llm_text,
                           fb_llm_response, fb_osc_prompt, fb_cb_prompt>>
    /\ UNCHANGED <<stop_llm_text, stop_osc_prompt>>
    /\ UNCHANGED <<running, stop_event, stop_called>>
    /\ UNCHANGED <<text_buffer, accumulation_buffer, accumulation_start_time,
                   accumulation_lock, buffer_lock, last_analysis_time, fb_collect_time,
                   fb_new_texts, fb_recent_text, fb_should_analyze,
                   fb_context_text>>
    /\ UNCHANGED <<sup_vars, stt_vars, stt_obs, chan_vars, now, ui_vars, osc_client, osc_vars>>
    /\ UNCHANGED <<slow_vars, saved_vars>>

\* _collect_recent_text: current_time = time.time(); new_texts = []
FastCollectBegin ==
    /\ pc["fast"] = "collect"
    /\ fb_collect_time' = now
    /\ fb_new_texts' = <<>>
    /\ pc' = [pc EXCEPT !["fast"] = "drain"]
    /\ UNCHANGED <<running, stop_event, stop_called>>
    /\ UNCHANGED <<text_buffer, accumulation_buffer, accumulation_start_time,
                   accumulation_lock, buffer_lock, last_analysis_time, fb_current_time,
                   fb_recent_text, fb_should_analyze, fb_context_text,
                   fb_prompt_data>>
    /\ UNCHANGED <<sup_vars, stt_vars, stt_obs, chan_vars, now, ui_vars, osc_client, osc_vars, fast_obs>>
    /\ UNCHANGED <<slow_vars, saved_vars>>

\* a consumer that puts the newest word first
Consume_first(transcript, word) == <<word>> \o transcript

\* self.full_transcript.append(word)
Consume(transcript, word) == Append(transcript, word)

\* one turn of the drain loop: text_queue.get_nowait(), new_texts.append,
\* _add_to_buffer(text), whose append runs under _buffer_lock; the
\* queue.Empty exception ends the loop
FastDrain ==
    /\ pc["fast"] = "drain"
    /\ IF text_queue # <<>>
       THEN /\ buffer_lock = "free"
            /\ text_queue' = Tail(text_queue)
            /\ fb_new_texts' = Append(fb_new_texts, Head(text_queue))
            /\ text_buffer' = AddToBuffer(text_buffer, now, Head(text_queue))
            /\ UNCHANGED pc
       ELSE /\ pc' = [pc EXCEPT !["fast"] = "accumulate"]
            /\ UNCHANGED <<text_queue, fb_new_texts, text_buffer>>
    /\ UNCHANGED <<summary_queue, stt_sent>>
    /\ UNCHANGED <<running, stop_event, stop_called>>
    /\ UNCHANGED <<accumulation_buffer, accumulation_start_time,
                   accumulation_lock, buffer_lock, last_analysis_time, fb_current_time,
                   fb_collect_time, fb_recent_text, fb_should_analyze,
                   fb_context_text, fb_prompt_data>>
    /\ UNCHANGED <<sup_vars, stt_vars, stt_obs, now, ui_vars, osc_client, osc_vars, fast_obs>>
    /\ UNCHANGED <<slow_vars, saved_vars>>

\* the condition without its test of the text
WantsAnalysis_any(recent_text, should_analyze, current_time, last_time) ==
    \/ should_analyze
    \/ current_time - last_time >= BRAIN_ANALYSIS_INTERVAL

\* the condition of run() for calling the LLM: recent_text.strip() and
\* (should_analyze or interval_elapsed)
WantsAnalysis(recent_text, should_analyze, current_time, last_time) ==
    /\ Strip(recent_text) # <<>>
    /\ \/ should_analyze
       \/ current_time - last_time >= BRAIN_ANALYSIS_INTERVAL

\* an accumulation that puts the new texts in front
Extend_front(buf, new_texts) == new_texts \o buf

\* self._accumulation_buffer.extend(new_texts)
Extend(buf, new_texts) == buf \o new_texts

\* an accumulation that never notes when it began
AccumulationStart_unset(start, new_texts, t) == start

\* if new_texts: ... if self._accumulation_start_time is None:
\* self._accumulation_start_time = current_time
AccumulationStart(start, new_texts, t) ==
    IF new_texts # <<>> /\ start = None THEN Some(t) ELSE start

\* the critical section of _collect_recent_text under _accumulation_lock
\* (extend, the flush decision, the reset), its return value, and the test
\* of run() on it
FastAccumulate ==
    /\ pc["fast"] = "accumulate"
    /\ accumulation_lock = "free"
    /\ LET buf == Extend(accumulation_buffer, fb_new_texts)
           start == AccumulationStart(accumulation_start_time, fb_new_texts,
                                      fb_collect_time)
           should == buf # <<>> /\ ShouldAnalyze(buf, start, fb_collect_time)
           text == Join(buf)
       IN  /\ accumulation_buffer' = IF should THEN <<>> ELSE buf
           /\ accumulation_start_time' = IF should THEN None ELSE start
           /\ fb_recent_text' = text
           /\ fb_should_analyze' = should
           /\ pc' = [pc EXCEPT !["fast"] =
                        IF WantsAnalysis(text, should, fb_current_time,
                                         last_analysis_time)
                        THEN "analyze" ELSE "loop"]
    /\ UNCHANGED <<running, stop_event, stop_called>>
    /\ UNCHANGED <<text_buffer, accumulation_lock, buffer_lock,
                   last_analysis_time,
                   fb_current_time, fb_collect_time, fb_new_texts,
                   fb_context_text, fb_prompt_data>>
    /\ UNCHANGED <<sup_vars, stt_vars, stt_obs, chan_vars, now, ui_vars, osc_client, osc_vars, fast_obs>>
    /\ UNCHANGED <<slow_vars, saved_vars>>

\* _analyze_with_ollama(recent_text) up to the call of ollama.chat; the
\* read of _get_context_window runs under _buffer_lock
FastAnalyzeBegin ==
    /\ pc["fast"] = "analyze"
    /\ buffer_lock = "free"
    /\ fb_context_text' = GetContextWindow(text_buffer, now)
    /\ fb_llm_text' = Some(fb_recent_text)
    /\ pc' = [pc EXCEPT !["fast"] = "llm"]
    /\ UNCHANGED <<fb_llm_response, fb_osc_prompt, fb_cb_prompt, stop_llm_text,
                   stop_osc_prompt>>
    /\ UNCHANGED <<running, stop_event, stop_called>>
    /\ UNCHANGED <<text_buffer, accumulation_buffer, accumulation_start_time,
                   accumulation_lock, buffer_lock, last_analysis_time, fb_current_time,
                   fb_collect_time, fb_new_texts, fb_recent_text,
                   fb_should_analyze, fb_prompt_data>>
    /\ UNCHANGED <<sup_vars, stt_vars, stt_obs, chan_vars, now, ui_vars, osc_client, osc_vars>>
    /\ UNCHANGED <<slow_vars, saved_vars>>

\* ollama.chat returns or raises, and _analyze_with_ollama returns
FastLlmReturn ==
    /\ pc["fast"] = "llm"
    /\ \E resp \in LlmResponses :
         /\ fb_llm_response' = Some(resp)
         /\ fb_prompt_data' = ParseResponse(resp, fb_recent_text)
    /\ pc' = [pc EXCEPT !["fast"] = "emit"]
    /\ UNCHANGED <<fb_llm_text, fb_osc_prompt, fb_cb_prompt, stop_llm_text,
                   stop_osc_prompt>>
    /\ UNCHANGED <<running, stop_event, stop_called>>
    /\ UNCHANGED <<text_buffer, accumulation_buffer, accumulation_start_time,
                   accumulation_lock, buffer_lock, last_analysis_time, fb_current_time,
                   fb_collect_time, fb_new_texts, fb_recent_text,
                   fb_should_analyze, fb_context_text>>
    /\ UNCHANGED <<sup_vars, stt_vars, stt_obs, chan_vars, now, ui_vars, osc_client, osc_vars>>
    /\ UNCHANGED <<slow_vars, saved_vars>>

\* if prompt_data: osc_client.send_json_prompt(prompt_data) and
\* prompt_callback(prompt_data); then last_analysis_time = current_time and
\* time.sleep(0.1)
FastEmit ==
    /\ pc["fast"] = "emit"
    /\ IF fb_prompt_data # None
       THEN /\ fb_osc_prompt' = fb_prompt_data
            /\ fb_cb_prompt' = fb_prompt_data
       ELSE UNCHANGED <<fb_osc_prompt, fb_cb_prompt>>
    /\ last_analysis_time' = fb_current_time
    /\ pc' = [pc EXCEPT !["fast"] = "loop"]
    /\ UNCHANGED <<fb_llm_text, fb_llm_response, stop_llm_text, stop_osc_prompt>>
    /\ UNCHANGED <<running, stop_event, stop_called>>
    /\ UNCHANGED <<text_buffer, accumulation_buffer, accumulation_start_time,
                   accumulation_lock, buffer_lock, fb_current_time, fb_collect_time,
                   fb_new_texts, fb_recent_text, fb_should_analyze,
                   fb_context_text, fb_prompt_data>>
    /\ UNCHANGED <<sup_vars, stt_vars, stt_obs, chan_vars, now, ui_vars, osc_client, osc_vars>>
    /\ UNCHANGED <<slow_vars, saved_vars>>

(***************************************************************************)
(* Slow Brain: the thread (SummaryEngine.run)                              *)
(***************************************************************************)
\* self._running = True
SlowRunSetRunning ==
    /\ pc["slow"] = "started"
    /\ running' = [running EXCEPT !["slow"] = TRUE]
    /\ pc' = [pc EXCEPT !["slow"] = "clear_event"]
    /\ UNCHANGED <<stop_event, stop_called>>
    /\ UNCHANGED <<sup_vars, stt_vars, stt_obs, chan_vars, now, ui_vars, osc_client, osc_vars, fast_vars,
                   fast_obs, slow_vars, saved_vars>>

\* self._stop_event.clear()
SlowRunClearEvent ==
    /\ pc["slow"] = "clear_event"
    /\ stop_event' = [stop_event EXCEPT !["slow"] = FALSE]
    /\ pc' = [pc EXCEPT !["slow"] = "loop"]
    /\ UNCHANGED <<running, stop_called>>
    /\ UNCHANGED <<sup_vars, stt_vars, stt_obs, chan_vars, now, ui_vars, osc_client, osc_vars, fast_vars,
                   fast_obs, slow_vars, saved_vars>>

\* while self._running and not self._stop_event.is_set()
SlowLoopCheck ==
    /\ pc["slow"] = "loop"
    /\ pc' = [pc EXCEPT !["slow"] = IF LoopGuard("slow") THEN "drain"
                                    ELSE "done"]
    /\ UNCHANGED <<running, stop_event, stop_called>>
    /\ UNCHANGED <<sup_vars, stt_vars, stt_obs, chan_vars, now, ui_vars, osc_client, osc_vars, fast_vars,
                   fast_obs, slow_vars, saved_vars>>

\* one turn of the drain loop: word = summary_queue.get_nowait();
\* full_transcript.append(word); queue.Empty ends it and now = time.time()
SlowDrain ==
    /\ pc["slow"] = "drain"
    /\ IF summary_queue # <<>>
       THEN /\ summary_queue' = Tail(summary_queue)
            /\ full_transcript' = Consume(full_transcript, Head(summary_queue))
            /\ UNCHANGED <<pc, slow_now>>
       ELSE /\ pc' = [pc EXCEPT !["slow"] = "text_timer"]
            /\ slow_now' = now
            /\ UNCHANGED <<summary_queue, full_transcript>>
    /\ UNCHANGED <<text_queue, stt_sent>>
    /\ UNCHANGED <<last_summary_time, last_visual_time, summary_calls>>
    /\ UNCHANGED <<running, stop_event, stop_called>>
    /\ UNCHANGED <<sup_vars, stt_vars, stt_obs, now, ui_vars, osc_client, osc_vars, fast_vars, fast_obs,
                   saved_vars>>

\* the test of a timer of run(): now - last >= interval
TimerDue(t, last, interval) == t - last >= interval

\* Task A: if now - last_summary_time >= SUMMARY_INTERVAL: when the
\* transcript is not empty _generate_text_summary() is entered and calls
\* the LLM (requests.post in _call_ollama, synchronous); otherwise
\* last_summary_time = now at once
SlowTextTimer ==
    /\ pc["slow"] = "text_timer"
    /\ IF TimerDue(slow_now, last_summary_time, SUMMARY_INTERVAL)
       THEN IF full_transcript # <<>>
            THEN /\ pc' = [pc EXCEPT !["slow"] = "text_llm"]
                 /\ summary_calls' = Append(summary_calls,
                                            [kind |-> "text", start |-> now])
                 /\ UNCHANGED last_summary_time
            ELSE /\ pc' = [pc EXCEPT !["slow"] = "visual_timer"]
                 /\ last_summary_time' = slow_now
                 /\ UNCHANGED summary_calls
       ELSE /\ pc' = [pc EXCEPT !["slow"] = "visual_timer"]
            /\ UNCHANGED <<last_summary_time, summary_calls>>
    /\ UNCHANGED <<full_transcript, last_visual_time, slow_now>>
    /\ UNCHANGED <<running, stop_event, stop_called>>
    /\ UNCHANGED <<sup_vars, stt_vars, stt_obs, chan_vars, now, ui_vars, osc_client, osc_vars,
                   fast_vars, fast_obs, saved_vars>>

\* _call_ollama returns (an answer, or None after an error or the timeout),
\* _generate_text_summary returns, and last_summary_time = now, the time
\* read before the call
SlowTextReturn ==
    /\ pc["slow"] = "text_llm"
    /\ last_summary_time' = slow_now
    /\ pc' = [pc EXCEPT !["slow"] = "visual_timer"]
    /\ UNCHANGED <<full_transcript, last_visual_time, slow_now, summary_calls>>
    /\ UNCHANGED <<running, stop_event, stop_called>>
    /\ UNCHANGED <<sup_vars, stt_vars, stt_obs, chan_vars, now, ui_vars, osc_client, osc_vars,
                   fast_vars, fast_obs, saved_vars>>

\* Task B: the same for the visual prompt, with the `now` of Task A
SlowVisualTimer ==
    /\ pc["slow"] = "visual_timer"
    /\ IF TimerDue(slow_now, last_visual_time, VISUAL_INTERVAL)
       THEN IF full_transcript # <<>>
            THEN /\ pc' = [pc EXCEPT !["slow"] = "visual_llm"]
                 /\ summary_calls' = Append(summary_calls,
                                            [kind |-> "visual", start |-> now])
                 /\ UNCHANGED last_visual_time
            ELSE /\ pc' = [pc EXCEPT !["slow"] = "loop"]
                 /\ last_visual_time' = slow_now
                 /\ UNCHANGED summary_calls
       ELSE /\ pc' = [pc EXCEPT !["slow"] = "loop"]
            /\ UNCHANGED <<last_visual_time, summary_calls>>
    /\ UNCHANGED <<full_transcript, last_summary_time, slow_now>>
    /\ UNCHANGED <<running, stop_event, stop_called>>
    /\ UNCHANGED <<sup_vars, stt_vars, stt_obs, chan_vars, now, ui_vars, osc_client, osc_vars,
                   fast_vars, fast_obs, saved_vars>>

\* the visual call returns, last_visual_time = now, then time.sleep(0.1)
SlowVisualReturn ==
    /\ pc["slow"] = "visual_llm"
    /\ last_visual_time' = slow_now
    /\ pc' = [pc EXCEPT !["slow"] = "loop"]
    /\ UNCHANGED <<full_transcript, last_summary_time, slow_now, summary_calls>>
    /\ UNCHANGED <<running, stop_event, stop_called>>
    /\ UNCHANGED <<sup_vars, stt_vars, stt_obs, chan_vars, now, ui_vars, osc_client, osc_vars,
                   fast_vars, fast_obs, saved_vars>>

\* SummaryEngine.reset_memory(), called by _reset_history on the UI thread
\* while the engine exists: self.full_transcript = []; _reset_history then
\* drops the state saved by the last pause
ResetMemory ==
    /\ pc["slow"] # "none"
    /\ resets < MaxResets
    /\ resets' = resets + 1
    /\ full_transcript' = <<>>
    /\ saved_brain_state' = None
    /\ saved_summary_state' = None
    /\ UNCHANGED <<history_seconds, generation_rate, pause_transcript, quit_pc>>
    /\ UNCHANGED <<osc_client, osc_vars>>
    /\ UNCHANGED <<last_summary_time, last_visual_time, slow_now,
                   summary_calls>>
    /\ UNCHANGED <<sup_vars, life_vars, stt_vars, stt_obs, chan_vars, now,
                   fast_vars, fast_obs>>

\* what the Slow Brain has been handed so far: its transcript, then its
\* channel
SlowReceived == full_transcript \o summary_queue

\* a get_state() that captures nothing
GetSummaryState_empty == [full_transcript |-> <<>>]

\* SummaryEngine.get_state()
GetSummaryState == [full_transcript |-> full_transcript]

\* a set_state that adds the captured transcript to the present one
SetSummaryState_merged(transcript, state) ==
    IF state = None THEN transcript
    ELSE transcript \o state.val.full_transcript

\* SummaryEngine.set_state(state) on an engine whose transcript is
\* `transcript`: if not state: return; self.full_transcript =
\* state.get("full_transcript", [])
SetSummaryState(transcript, state) ==
    IF state = None THEN transcript
    ELSE state.val.full_transcript

\* the STT worker puts a cleaned token on the Slow Brain's channel
SummaryPut(words) ==
    /\ Alive("stt")
    /\ Len(full_transcript) + Len(summary_queue) < MaxTokens
    /\ \E w \in words :
         summary_queue' = PutDropOldest(summary_queue, SUMMARY_QUEUE_MAXSIZE,
                                        w)
    /\ UNCHANGED <<text_queue, stt_sent>>
    /\ UNCHANGED <<sup_vars, life_vars, stt_vars, stt_obs, now, ui_vars, osc_client, osc_vars,
                   fast_vars, fast_obs, slow_vars, saved_vars>>

(***************************************************************************)
(* Supervisor: the two sliders                                             *)
(***************************************************************************)
\* _on_history_change(value): config.history_seconds = int(value)
OnHistoryChange(values) ==
    /\ \E val \in values : history_seconds' = val
    /\ UNCHANGED <<generation_rate, resets, pause_transcript, quit_pc>>
    /\ UNCHANGED <<osc_client, osc_vars>>
    /\ UNCHANGED <<sup_vars, life_vars, stt_vars, stt_obs, chan_vars, now,
                   fast_vars, fast_obs, slow_vars, saved_vars>>

\* _on_rate_change(value): config.generation_rate = int(value)
OnRateChange(values) ==
    /\ \E val \in values : generation_rate' = val
    /\ UNCHANGED <<history_seconds, resets, pause_transcript, quit_pc>>
    /\ UNCHANGED <<osc_client, osc_vars>>
    /\ UNCHANGED <<sup_vars, life_vars, stt_vars, stt_obs, chan_vars, now,
                   fast_vars, fast_obs, slow_vars, saved_vars>>

(***************************************************************************)
(* Supervisor: _start_engines (the UI thread)                              *)
(***************************************************************************)
\* _start_engines up to self.audio_engine.start(): the guard, the flags,
\* _update_config, osc_client.connect(), the two new queues, the new
\* AudioEngine and its start()
StartAudio ==
    /\ start_pc = "idle"
    /\ quit_pc = "idle"
    /\ ~is_running
    /\ starts < MaxStarts
    /\ starts' = starts + 1
    /\ is_running' = TRUE
    /\ is_stopping' = FALSE
    /\ osc_connected' = TRUE
    /\ osc_client' = IF osc_connected THEN osc_client
                   ELSE Some([ip |-> target_ip, port |-> target_port])
    /\ start_pc' = "brain"
    /\ text_queue' = <<>>
    /\ summary_queue' = <<>>
    /\ stt_sent' = 0
    /\ pc' = [pc EXCEPT !["stt"] = "started"]
    /\ running' = [running EXCEPT !["stt"] = FALSE]
    /\ stop_event' = [stop_event EXCEPT !["stt"] = FALSE]
    /\ stop_called' = [stop_called EXCEPT !["stt"] = FALSE]
    /\ audio_queue' = <<>>
    /\ moshi_loaded' = FALSE
    /\ stream' = "none"
    /\ silence_counter' = 0
    /\ chunk' = NoFrame
    /\ cb_pc' = "idle"
    /\ cb_frame' = NoFrame
    /\ next_frame' = 1
    /\ tokenized' = {}
    /\ lm_stepped' = {}
    /\ discarded' = {}
    /\ emitted' = <<>>
    /\ transcribed' = <<>>
    /\ cb_dropped' = {}
    /\ cb_lost' = {}
    /\ chunk_errors' = {}
    /\ stream_error' = FALSE
    /\ UNCHANGED <<pause_pc, pause_stage, watch_found>>
    /\ UNCHANGED <<now, ui_vars, osc_vars, fast_vars, fast_obs, slow_vars, saved_vars>>

\* the new BrainEngine and its start()
StartBrain ==
    /\ start_pc = "brain"
    /\ start_pc' = "summary"
    /\ pc' = [pc EXCEPT !["fast"] = "started"]
    /\ running' = [running EXCEPT !["fast"] = FALSE]
    /\ stop_event' = [stop_event EXCEPT !["fast"] = FALSE]
    /\ stop_called' = [stop_called EXCEPT !["fast"] = FALSE]
    /\ text_buffer' = <<>>
    /\ accumulation_buffer' = <<>>
    /\ accumulation_start_time' = None
    /\ accumulation_lock' = "free"
    /\ buffer_lock' = "free"
    /\ last_analysis_time' = 0
    /\ fb_current_time' = 0
    /\ fb_collect_time' = 0
    /\ fb_new_texts' = <<>>
    /\ fb_recent_text' = <<>>
    /\ fb_should_analyze' = FALSE
    /\ fb_context_text' = <<>>
    /\ fb_prompt_data' = None
    /\ fb_llm_text' = None
    /\ fb_llm_response' = None
    /\ fb_osc_prompt' = None
    /\ fb_cb_prompt' = None
    /\ stop_llm_text' = None
    /\ stop_osc_prompt' = None
    /\ UNCHANGED <<is_running, is_stopping, starts, pause_pc, pause_stage,
                   osc_connected, watch_found>>
    /\ UNCHANGED <<stt_vars, stt_obs, chan_vars, now, ui_vars, osc_client, osc_vars, slow_vars, saved_vars>>

\* BrainEngine.set_state(state): the buffers of the capture are restored
SetBrainState(state) ==
    /\ accumulation_buffer' = state.accum
    /\ accumulation_start_time' = state.first_arrival
    /\ text_buffer' = state.ctx
    /\ last_analysis_time' = state.last_flush_time

\* the new SummaryEngine (its two timers start at its construction),
\* "Restore State if available": brain_engine.set_state and
\* summary_engine.set_state, then self.summary_engine.start()
StartSummary ==
    /\ start_pc = "summary"
    /\ start_pc' = "idle"
    /\ pc' = [pc EXCEPT !["slow"] = "started"]
    /\ running' = [running EXCEPT !["slow"] = FALSE]
    /\ stop_event' = [stop_event EXCEPT !["slow"] = FALSE]
    /\ stop_called' = [stop_called EXCEPT !["slow"] = FALSE]
    /\ last_summary_time' = now
    /\ last_visual_time' = now
    /\ slow_now' = 0
    /\ summary_calls' = <<>>
    /\ full_transcript' = SetSummaryState(<<>>, saved_summary_state)
    /\ IF saved_brain_state # None
       THEN SetBrainState(saved_brain_state.val)
       ELSE UNCHANGED <<accumulation_buffer, accumulation_start_time,
                        text_buffer, last_analysis_time>>
    /\ UNCHANGED <<accumulation_lock, buffer_lock, fb_current_time,
                   fb_collect_time,
                   fb_new_texts, fb_recent_text, fb_should_analyze,
                   fb_context_text, fb_prompt_data>>
    /\ UNCHANGED <<is_running, is_stopping, starts, pause_pc, pause_stage,
                   osc_connected, watch_found>>
    /\ UNCHANGED <<stt_vars, stt_obs, chan_vars, now, ui_vars, osc_client, osc_vars, fast_obs, saved_vars>>

(***************************************************************************)
(* Supervisor: the engine monitor                                          *)
(***************************************************************************)
\* the stages the watchdog looks at: audio_engine and brain_engine
WatchedStages == {"stt", "fast"}

\* what one pass of monitor() finds: while is_running and not is_stopping,
\* each watched engine that exists and is not alive
MonitorFinds ==
    IF is_running /\ ~is_stopping
    THEN {s \in WatchedStages : pc[s] # "none" /\ ~Alive(s)}
    ELSE {}

\* one pass of monitor(): the engines found dead are logged ("died!
\* Restarting..."), nothing else is done
MonitorTick ==
    /\ watch_found' = MonitorFinds
    /\ UNCHANGED <<is_running, is_stopping, starts, start_pc, pause_pc,
                   pause_stage, osc_connected>>
    /\ UNCHANGED <<life_vars, stt_vars, stt_obs, chan_vars, now, ui_vars, osc_client, osc_vars, fast_vars,
                   fast_obs, slow_vars, saved_vars>>

(***************************************************************************)
(* Supervisor: pause (_stop_engines and _stop_engines_thread)              *)
(***************************************************************************)
\* _stop_engines on the UI thread: is_stopping = True and the background
\* thread is started (the pause button is disabled while it runs)
StopEngines ==
    /\ is_running
    /\ ~is_stopping
    /\ start_pc = "idle"
    /\ pause_pc = "idle"
    /\ is_stopping' = TRUE
    /\ pause_pc' = "brain_state"
    /\ pause_transcript' = full_transcript
    /\ UNCHANGED <<history_seconds, generation_rate, resets, quit_pc>>
    /\ UNCHANGED <<osc_client, osc_vars>>
    /\ UNCHANGED <<is_running, starts, start_pc, pause_stage, osc_connected,
                   watch_found>>
    /\ UNCHANGED <<life_vars, stt_vars, stt_obs, chan_vars, now, fast_vars,
                   fast_obs, slow_vars, saved_vars>>

\* BrainEngine.get_state(): the capture of the Fast Brain's buffers
GetBrainState ==
    [accum |-> accumulation_buffer,
     first_arrival |-> accumulation_start_time,
     ctx |-> text_buffer,
     last_flush_time |-> last_analysis_time]

\* self.saved_brain_state = self.brain_engine.get_state()
PauseBrainState ==
    /\ pause_pc = "brain_state"
    /\ saved_brain_state' = Some(GetBrainState)
    /\ pause_pc' = "stop_flag"
    /\ UNCHANGED saved_summary_state
    /\ UNCHANGED <<is_running, is_stopping, starts, start_pc, pause_stage,
                   osc_connected, watch_found>>
    /\ UNCHANGED <<life_vars, stt_vars, stt_obs, chan_vars, now, ui_vars, osc_client, osc_vars, fast_vars,
                   fast_obs, slow_vars>>

\* the order in which _stop_engines_thread stops the stages
StopOrder == <<"fast", "slow", "stt">>

\* stop() of every stage begins with self._running = False
StopSetFlag ==
    /\ pause_pc = "stop_flag"
    /\ running' = [running EXCEPT ![StopOrder[pause_stage]] = FALSE]
    /\ stop_called' = [stop_called EXCEPT ![StopOrder[pause_stage]] = TRUE]
    /\ pause_pc' = "stop_event"
    /\ UNCHANGED <<pc, stop_event>>
    /\ UNCHANGED <<is_running, is_stopping, starts, start_pc, pause_stage,
                   osc_connected, watch_found>>
    /\ UNCHANGED <<stt_vars, stt_obs, chan_vars, now, ui_vars, osc_client, osc_vars, fast_vars, fast_obs,
                   slow_vars, saved_vars>>

\* then self._stop_event.set(); BrainEngine.stop goes on to its final
\* flush, the other two to join
StopSetEvent ==
    /\ pause_pc = "stop_event"
    /\ stop_event' = [stop_event EXCEPT ![StopOrder[pause_stage]] = TRUE]
    /\ pause_pc' = IF StopOrder[pause_stage] = "fast" THEN "stop_flush"
                   ELSE "stop_join"
    /\ UNCHANGED <<pc, running, stop_called>>
    /\ UNCHANGED <<is_running, is_stopping, starts, start_pc, pause_stage,
                   osc_connected, watch_found>>
    /\ UNCHANGED <<stt_vars, stt_obs, chan_vars, now, ui_vars, osc_client, osc_vars, fast_vars, fast_obs,
                   slow_vars, saved_vars>>

\* BrainEngine.stop: with self._accumulation_lock: if the buffer holds
\* text, _analyze_with_ollama(remaining_text) is called with the lock held
StopFlushBegin ==
    /\ pause_pc = "stop_flush"
    /\ accumulation_lock = "free"
    /\ IF accumulation_buffer # <<>>
          /\ Strip(Join(accumulation_buffer)) # <<>>
       THEN /\ accumulation_lock' = "stop"
            /\ stop_llm_text' = Some(Join(accumulation_buffer))
            /\ pause_pc' = "stop_context"
       ELSE /\ UNCHANGED <<accumulation_lock, stop_llm_text>>
            /\ pause_pc' = "stop_join"
    /\ UNCHANGED <<fb_llm_text, fb_llm_response, fb_osc_prompt, fb_cb_prompt,
                   stop_osc_prompt, buffer_lock>>
    /\ UNCHANGED <<text_buffer, accumulation_buffer, accumulation_start_time,
                   last_analysis_time, fb_current_time, fb_collect_time,
                   fb_new_texts, fb_recent_text, fb_should_analyze,
                   fb_context_text, fb_prompt_data>>
    /\ UNCHANGED <<is_running, is_stopping, starts, start_pc, osc_connected,
                   watch_found, pause_stage>>
    /\ UNCHANGED <<life_vars, stt_vars, stt_obs, chan_vars, now, ui_vars, osc_client, osc_vars, slow_vars,
                   saved_vars>>

\* a "with" block that keeps its lock when it is left
Release_held(holder) == holder

\* the end of a "with lock:" block
Release(holder) == "free"

\* _get_context_window() called by stop()'s _analyze_with_ollama, the
\* accumulation lock being held: "with self._buffer_lock:" is entered, the
\* entries are read, and the block is left
StopGetContextWindow ==
    /\ \/ /\ pause_pc = "stop_context"
          /\ buffer_lock = "free"
          /\ buffer_lock' = "stop"
          /\ pause_pc' = "stop_window"
       \/ /\ pause_pc = "stop_window"
          /\ buffer_lock' = Release(buffer_lock)
          /\ pause_pc' = "stop_llm"
    /\ UNCHANGED <<fb_llm_text, fb_llm_response, fb_osc_prompt, fb_cb_prompt,
                   stop_llm_text, stop_osc_prompt>>
    /\ UNCHANGED <<text_buffer, accumulation_buffer, accumulation_start_time,
                   accumulation_lock, last_analysis_time, fb_current_time,
                   fb_collect_time, fb_new_texts, fb_recent_text,
                   fb_should_analyze, fb_context_text, fb_prompt_data>>
    /\ UNCHANGED <<is_running, is_stopping, starts, start_pc, osc_connected,
                   watch_found, pause_stage>>
    /\ UNCHANGED <<life_vars, stt_vars, stt_obs, chan_vars, now, ui_vars,
                   osc_client, osc_vars, slow_vars, saved_vars>>

\* the LLM answers stop(): the result, if any, is sent and the lock released
StopFlushEnd ==
    /\ pause_pc = "stop_llm"
    /\ \E resp \in LlmResponses :
         stop_osc_prompt' = ParseResponse(resp, stop_llm_text.val)
    /\ accumulation_lock' = Release(accumulation_lock)
    /\ pause_pc' = "stop_join"
    /\ UNCHANGED <<fb_llm_text, fb_llm_response, fb_osc_prompt, fb_cb_prompt,
                   stop_llm_text, buffer_lock>>
    /\ UNCHANGED <<text_buffer, accumulation_buffer, accumulation_start_time,
                   last_analysis_time, fb_current_time, fb_collect_time,
                   fb_new_texts, fb_recent_text, fb_should_analyze,
                   fb_context_text, fb_prompt_data>>
    /\ UNCHANGED <<is_running, is_stopping, starts, start_pc, osc_connected,
                   watch_found, pause_stage>>
    /\ UNCHANGED <<life_vars, stt_vars, stt_obs, chan_vars, now, ui_vars, osc_client, osc_vars, slow_vars,
                   saved_vars>>

\* self.join(timeout=2.0) returns, the thread having ended or not; after the
\* Fast Brain the Slow Brain's state is saved and it is stopped, then the
\* STT worker, then OSC is disconnected
StopJoin ==
    /\ pause_pc = "stop_join"
    /\ IF pause_stage < Len(StopOrder)
       THEN /\ pause_stage' = pause_stage + 1
            /\ pause_pc' = "stop_flag"
       ELSE /\ pause_stage' = 1
            /\ pause_pc' = "disconnect"
    /\ saved_summary_state' =
         IF StopOrder[pause_stage] = "fast" /\ quit_pc = "idle"
         THEN Some(GetSummaryState)
         ELSE saved_summary_state
    /\ UNCHANGED saved_brain_state
    /\ UNCHANGED <<is_running, is_stopping, starts, start_pc, osc_connected,
                   watch_found>>
    /\ UNCHANGED <<life_vars, stt_vars, stt_obs, chan_vars, now, ui_vars, osc_client, osc_vars, fast_vars,
                   fast_obs, slow_vars>>

\* self.osc_client.disconnect() and self.after(0, self._on_stopped)
PauseDisconnect ==
    /\ pause_pc = "disconnect"
    /\ osc_connected' = FALSE
    /\ osc_client' = None
    /\ pause_pc' = "on_stopped"
    /\ UNCHANGED <<is_running, is_stopping, starts, start_pc, watch_found,
                   pause_stage>>
    /\ UNCHANGED <<life_vars, stt_vars, stt_obs, chan_vars, now, ui_vars, osc_vars, fast_vars,
                   fast_obs, slow_vars, saved_vars>>

\* _on_stopped on the UI thread: is_running = False
OnStopped ==
    /\ pause_pc = "on_stopped"
    /\ quit_pc = "idle"
    /\ start_pc = "idle"
    /\ is_running' = FALSE
    /\ pause_pc' = "idle"
    /\ UNCHANGED <<is_stopping, starts, start_pc, osc_connected, watch_found,
                   pause_stage>>
    /\ UNCHANGED <<life_vars, stt_vars, stt_obs, chan_vars, now, ui_vars, osc_client, osc_vars, fast_vars,
                   fast_obs, slow_vars, saved_vars>>

\* _quit_app on the UI thread: ignored while is_stopping is set; else it
\* sets is_stopping and starts _quit_thread, which stops the Fast Brain,
\* the Slow Brain and the STT worker with the same stop() calls as a pause,
\* without saving their state, and disconnects OSC
QuitApp ==
    /\ ~is_stopping
    /\ quit_pc = "idle"
    /\ start_pc = "idle"
    /\ pause_pc = "idle"
    /\ is_stopping' = TRUE
    /\ quit_pc' = "thread"
    /\ pause_pc' = "stop_flag"
    /\ UNCHANGED <<history_seconds, generation_rate, resets, pause_transcript>>
    /\ UNCHANGED <<is_running, starts, start_pc, pause_stage, osc_connected,
                   watch_found>>
    /\ UNCHANGED <<life_vars, stt_vars, stt_obs, chan_vars, now, fast_vars,
                   fast_obs, slow_vars, saved_vars, osc_client, osc_vars>>

\* _finalize_quit on the UI thread: self.destroy() and sys.exit(0)
QuitFinalize ==
    /\ quit_pc = "thread"
    /\ pause_pc = "on_stopped"
    /\ quit_pc' = "done"
    /\ pause_pc' = "idle"
    /\ UNCHANGED <<history_seconds, generation_rate, resets, pause_transcript>>
    /\ UNCHANGED <<is_running, is_stopping, starts, start_pc, pause_stage,
                   osc_connected, watch_found>>
    /\ UNCHANGED <<life_vars, stt_vars, stt_obs, chan_vars, now, fast_vars,
                   fast_obs, slow_vars, saved_vars, osc_client, osc_vars>>

(***************************************************************************)
(* Specifications                                                          *)
(***************************************************************************)
\* _start_engines, which every session begins with
StartSteps ==
    \/ StartAudio
    \/ StartBrain
    \/ StartSummary

\* the peaks of the frames of SpecStt: silence, the loudest frame the gate
\* discards after AGC, the quietest it lets through, and a loud frame
SttPeaks == {0, 4999, 5000, 500000}

\* what _process_audio_chunk meets in SpecStt
SttOutcomes ==
    TokenIds \cup {NotEncoded, NoToken, EncodeRaises, StepRaises}

\* SpecStt: one session of the STT worker on a few frames of any kind, the
\* brains not scheduled
NextStt ==
    \/ StartSteps
    \/ AudioCallbackEnter(MaxFrames, SttPeaks)
    \/ AudioCallbackPut
    \/ AudioRunBegin
    \/ AudioLoadModel
    \/ AudioRunSetRunning
    \/ AudioRunClearEvent
    \/ AudioOpenStream
    \/ AudioLoopCheck
    \/ AudioGet
    \/ AudioProcess(SttOutcomes)
    \/ AudioCleanup

SpecStt == Init /\ [][NextStt]_vars

\* SpecLoad: one session of the STT worker under sustained speech: more
\* frames than the PCM queue holds, each loud and each decoded to a word,
\* the brains not scheduled
NextLoad ==
    \/ StartSteps
    \/ AudioCallbackEnter(MaxLoadFrames, {500000})
    \/ AudioCallbackPut
    \/ AudioCallbackDrop
    \/ AudioCallbackReput
    \/ AudioRunBegin
    \/ AudioLoadModel
    \/ AudioRunSetRunning
    \/ AudioRunClearEvent
    \/ AudioOpenStream
    \/ AudioLoopCheck
    \/ AudioGet
    \/ AudioProcess({7})
    \/ AudioCleanup

SpecLoad == Init /\ [][NextLoad]_vars

\* SpecBrain: one session of the Fast Brain's consumer loop: the STT worker
\* emits up to MaxTokens cleaned tokens at any moments of MaxTime ticks, and
\* the LLM answers each call in any of the ways of LlmResponses
NextBrain ==
    \/ StartSteps
    \/ SttPutToken(BrainTokens)
    \/ Tick
    \/ FastRunSetRunning
    \/ FastRunClearEvent
    \/ FastRunInitTime
    \/ FastLoopCheck
    \/ FastCollectBegin
    \/ FastDrain
    \/ FastAccumulate
    \/ FastAnalyzeBegin
    \/ FastLlmReturn
    \/ FastEmit

SpecBrain == Init /\ [][NextBrain]_vars

\* the steps of the STT worker's thread when the device delivers no frame
SttLifeSteps ==
    \/ AudioRunBegin
    \/ AudioLoadModel
    \/ AudioRunSetRunning
    \/ AudioRunClearEvent
    \/ AudioOpenStream
    \/ AudioLoopCheck
    \/ AudioGet
    \/ AudioCleanup

\* the steps of the Fast Brain's thread when no token arrives
FastLifeSteps ==
    \/ FastRunSetRunning
    \/ FastRunClearEvent
    \/ FastRunInitTime
    \/ FastLoopCheck
    \/ FastCollectBegin
    \/ FastDrain
    \/ FastAccumulate

\* the steps of the Slow Brain's thread
SlowLifeSteps ==
    \/ SlowRunSetRunning
    \/ SlowRunClearEvent
    \/ SlowLoopCheck
    \/ SlowDrain
    \/ SlowTextTimer
    \/ SlowVisualTimer

\* the steps of _stop_engines_thread once the pause button started it, the
\* Fast Brain's buffer being empty
PauseSteps ==
    \/ PauseBrainState
    \/ StopSetFlag
    \/ StopSetEvent
    \/ StopFlushBegin
    \/ StopJoin
    \/ PauseDisconnect
    \/ OnStopped

\* _start_engines once the start button began it
StartRest ==
    \/ StartBrain
    \/ StartSummary

\* SpecLife: the life cycle of the three stage threads under start and
\* pause, in silence.  The buttons are pressed or not; the threads, once
\* started, keep being scheduled.
NextLife ==
    \/ StartAudio
    \/ StartRest
    \/ StopEngines
    \/ PauseSteps
    \/ SttLifeSteps
    \/ FastLifeSteps
    \/ SlowLifeSteps

SpecLife ==
    /\ Init
    /\ [][NextLife]_vars
    /\ WF_vars(StartRest)
    /\ WF_vars(PauseSteps)
    /\ WF_vars(SttLifeSteps)
    /\ WF_vars(FastLifeSteps)
    /\ WF_vars(SlowLifeSteps)

\* SpecWatch: one session under the engine monitor, in silence and without
\* pause: the threads and the monitor's timer keep being scheduled
NextWatch ==
    \/ StartAudio
    \/ StartRest
    \/ MonitorTick
    \/ SttLifeSteps
    \/ FastLifeSteps
    \/ SlowLifeSteps

SpecWatch ==
    /\ Init
    /\ [][NextWatch]_vars
    /\ WF_vars(StartRest)
    /\ WF_vars(MonitorTick)
    /\ WF_vars(SttLifeSteps)
    /\ WF_vars(FastLifeSteps)
    /\ WF_vars(SlowLifeSteps)

\* the positions of a brain's thread inside one iteration of its loop when
\* no LLM call is made: they take microseconds, the time.sleep(0.1) that
\* ends the iteration 1/25 of a tick
FastPolling == pc["fast"] \in {"collect", "drain", "accumulate"}
SlowPolling == pc["slow"] \in {"drain", "text_timer", "visual_timer"}

\* the clock of a started session, read at a finer grain than a tick by no
\* iteration without LLM call: a tick passes while the brains sleep, are
\* not yet in their loops or wait for the LLM
SessionTick(bound) ==
    /\ is_running
    /\ start_pc = "idle"
    /\ ~FastPolling
    /\ ~SlowPolling
    /\ TickTo(bound)

\* SpecSilence: one session in which the STT worker emits no token, the two
\* brains polling for MaxSilenceTime ticks
NextSilence ==
    \/ StartSteps
    \/ SessionTick(MaxSilenceTime)
    \/ FastLifeSteps
    \/ SlowLifeSteps

SpecSilence == Init /\ [][NextSilence]_vars

\* SpecSlow: one session of the Slow Brain's consumer loop over
\* MaxSlowTime ticks: words arrive on its channel at any moments and each
\* LLM call lasts any number of ticks
NextSlow ==
    \/ StartSteps
    \/ SessionTick(MaxSlowTime)
    \/ SummaryPut({<<"H", "i">>})
    \/ SlowLifeSteps
    \/ SlowTextReturn
    \/ SlowVisualReturn

SpecSlow == Init /\ [][NextSlow]_vars

\* SpecReset: one session of the Slow Brain's consumer loop in which the
\* memory is reset: the word "Hi" arrives before the reset, "ok." after it
NextReset ==
    \/ StartSteps
    \/ SummaryPut(IF resets = 0 THEN {<<"H", "i">>} ELSE {<<"o", "k", ".">>})
    \/ SlowLifeSteps
    \/ ResetMemory

SpecReset == Init /\ [][NextReset]_vars

\* SpecConfig: one session of the Fast Brain in which the two sliders are
\* moved at any moments, each to an end of its range or to 45 s
NextConfig ==
    \/ StartSteps
    \/ OnHistoryChange({HISTORY_SLIDER_FROM, 45, HISTORY_SLIDER_TO})
    \/ OnRateChange({RATE_SLIDER_FROM, 45, RATE_SLIDER_TO})
    \/ SttPutToken({<<"a", "b", "c", "d", "e", "f", "g", "h", "i", "j",
                      "k", "l", "m", "n", "o">>})
    \/ FastLifeSteps
    \/ FastAnalyzeBegin
    \/ FastLlmReturn
    \/ FastEmit

SpecConfig == Init /\ [][NextConfig]_vars

\* the STT worker emits a token while the Fast Brain cannot drain the
\* channel: before its first iteration found anything, or while it waits
\* for ollama.chat; `first` is the first token of the session, `rest` any
\* later one
SttPutWhileBusy(bound, first, rest) ==
    /\ Alive("stt")
    /\ stt_sent < bound
    /\ stt_sent = 0 \/ pc["fast"] = "llm"
    /\ text_queue' = PutDropOldest(text_queue, TEXT_QUEUE_MAXSIZE,
                                   IF stt_sent = 0 THEN first ELSE rest)
    /\ stt_sent' = stt_sent + 1
    /\ UNCHANGED summary_queue
    /\ UNCHANGED <<sup_vars, life_vars, stt_vars, stt_obs, now, ui_vars,
                   osc_client, osc_vars, fast_vars, fast_obs, slow_vars,
                   saved_vars>>

\* SpecWindow: one session in which the speaker goes on talking during a
\* long LLM call: the first token starts an analysis, the following ones
\* queue up on the channel until ollama.chat returns, and the consumer loop
\* then drains them in one pass
NextWindow ==
    \/ StartSteps
    \/ SttPutWhileBusy(MaxBurst,
                       <<"a", "b", "c", "d", "e", "f", "g", "h", "i", "j",
                         "k", "l", "m", "n", "o">>,
                       <<"p">>)
    \/ FastLifeSteps
    \/ FastAnalyzeBegin
    \/ (stt_sent = MaxBurst /\ FastLlmReturn)
    \/ FastEmit

SpecWindow == Init /\ [][NextWindow]_vars

\* SpecFlush: one session of the Fast Brain over MaxTime ticks, with a
\* short first token and then short or long ones, at any moments
NextFlush ==
    \/ StartSteps
    \/ SttPutToken(IF stt_sent = 0 THEN {<<"H", "i">>}
                   ELSE {<<"o", "k", ".">>,
                         <<"a", "b", "c", "d", "e", "f", "g", "h", "i", "j",
                           "k", "l", "m", "n", "o">>})
    \/ Tick
    \/ FastLifeSteps
    \/ FastAnalyzeBegin
    \/ FastLlmReturn
    \/ FastEmit

SpecFlush == Init /\ [][NextFlush]_vars

\* SpecQuit: the life cycle with the quit button
\* SpecStop: one session of the Fast Brain ended by a pause at any moment:
\* a short token arrives, the clock advances, and stop() runs its final flush
\* while the consumer loop is anywhere in its iteration
NextStop ==
    \/ (starts = 0 /\ StartAudio)
    \/ StartBrain
    \/ StartSummary
    \/ (stt_sent = 0 /\ SttPutToken({<<"H", "i">>}))
    \/ Tick
    \/ FastLifeSteps
    \/ FastAnalyzeBegin
    \/ FastLlmReturn
    \/ FastEmit
    \/ StopEngines
    \/ PauseSteps
    \/ StopGetContextWindow
    \/ StopFlushEnd

SpecStop == Init /\ [][NextStop]_vars

\* SpecLocks: one session of the Fast Brain on a short token and then a
\* long one, ended by a pause at any moment.  The consumer loop and the
\* pause thread keep being scheduled, and the LLM answers every call,
\* stop()'s included.
NextLocks ==
    \/ (starts = 0 /\ StartAudio)
    \/ StartBrain
    \/ StartSummary
    \/ SttPutToken(IF stt_sent = 0 THEN {<<"H", "i">>}
                   ELSE {<<"a", "b", "c", "d", "e", "f", "g", "h", "i", "j",
                           "k", "l", "m", "n", "o">>})
    \/ FastLifeSteps
    \/ FastAnalyzeBegin
    \/ FastLlmReturn
    \/ FastEmit
    \/ StopEngines
    \/ PauseSteps
    \/ StopGetContextWindow
    \/ StopFlushEnd

SpecLocks ==
    /\ Init
    /\ [][NextLocks]_vars
    /\ WF_vars(FastLifeSteps)
    /\ WF_vars(FastAnalyzeBegin)
    /\ WF_vars(FastLlmReturn)
    /\ WF_vars(FastEmit)
    /\ WF_vars(PauseSteps)
    /\ WF_vars(StopGetContextWindow)
    /\ WF_vars(StopFlushEnd)

NextQuit == NextLife \/ QuitApp \/ QuitFinalize

SpecQuit == Init /\ [][NextQuit]_vars

\* SpecHang: the sessions of SpecConfig with the Fast Brain's thread kept
\* scheduled, and an LLM endpoint that answers a call or never does:
\* ollama.chat is called without timeout, nothing but its return ends it
SpecHang ==
    /\ Init
    /\ [][NextConfig]_vars
    /\ WF_vars(StartSteps)
    /\ WF_vars(FastLifeSteps)
    /\ WF_vars(FastAnalyzeBegin)
    /\ WF_vars(FastEmit)

\* what the loop body meets in SpecSttStop
SttStopOutcomes == {7, NoToken, StepRaises, LoopRaises}

\* SpecSttStop: sessions of the STT worker on a few frames, loud or not,
\* ended by a pause at any moment, by an exception in the loop or by a
\* device that cannot be opened; the brains not scheduled
NextSttStop ==
    \/ StartSteps
    \/ AudioCallbackEnter(MaxFrames, {0, 500000})
    \/ AudioCallbackPut
    \/ SttLifeSteps
    \/ AudioProcess(SttStopOutcomes)
    \/ StopEngines
    \/ PauseSteps

SpecSttStop == Init /\ [][NextSttStop]_vars

\* SpecResume: sessions of the Slow Brain's consumer loop under start and
\* pause: words arrive on its channel at any moments ("Hi" when the Slow
\* Brain has received nothing yet, "ok." after it), and the clock lets the
\* first text summary of a session fall due
NextResume ==
    \/ StartAudio
    \/ StartRest
    \/ StopEngines
    \/ PauseSteps
    \/ SessionTick(SUMMARY_INTERVAL)
    \/ SummaryPut(IF SlowReceived = <<>> THEN {<<"H", "i">>}
                  ELSE {<<"o", "k", ".">>})
    \/ SlowLifeSteps
    \/ SlowTextReturn

SpecResume == Init /\ [][NextResume]_vars

(***************************************************************************)
(* The broadcaster (OSCClient), an object shared by the UI thread and the  *)
(* stage threads: every method body under "with self._lock" is one step    *)
(***************************************************************************)
non_osc_vars == <<is_running, is_stopping, starts, start_pc, pause_pc,
                  pause_stage, watch_found, life_vars, stt_vars, stt_obs,
                  chan_vars, now, fast_vars, fast_obs, slow_vars, saved_vars,
                  ui_vars>>

\* prompt_data.get(key, "")
PromptGet(d, key) == IF key \in DOMAIN d THEN d[key] ELSE ""

\* json.dumps(prompt_data) of a dict of strings, in the order of its keys
RECURSIVE JsonJoin(_, _)
JsonJoin(d, keys) ==
    IF keys = <<>> THEN ""
    ELSE LET item == "\"" \o keys[1] \o "\": \"" \o d[keys[1]] \o "\""
         IN  IF Len(keys) = 1 THEN item
             ELSE item \o ", " \o JsonJoin(d, Tail(keys))

JsonDumps(d) ==
    "{" \o JsonJoin(d, SelectSeq(<<"prompt", "style", "mood">>,
                                 LAMBDA k : k \in DOMAIN d)) \o "}"

\* a send_json_prompt that sends the style first
PromptMessages_style_first(d) ==
    << [address |-> "/visual/style", value |-> PromptGet(d, "style")],
       [address |-> "/visual/prompt", value |-> PromptGet(d, "prompt")],
       [address |-> "/visual/mood", value |-> PromptGet(d, "mood")],
       [address |-> "/visual/json", value |-> JsonDumps(d)] >>

\* send_json_prompt: the address and the argument of its sends, in order
PromptMessages(d) ==
    << [address |-> "/visual/prompt", value |-> PromptGet(d, "prompt")],
       [address |-> "/visual/style", value |-> PromptGet(d, "style")],
       [address |-> "/visual/mood", value |-> PromptGet(d, "mood")],
       [address |-> "/visual/json", value |-> JsonDumps(d)] >>

\* send: "Not connected" without a connection or a client, else
\* _client.send_message is called and either returns or raises
SendOutcome(connected, client, raises) ==
    IF ~connected \/ client = None THEN "not_connected"
    ELSE IF raises THEN "send_error"
    ELSE "sent"

\* a send whose transport error reaches send_json_prompt and ends it
AfterSend_raised(k, outcome) ==
    IF k = 4 \/ outcome = "send_error" THEN 0 ELSE k + 1

\* send returns to send_json_prompt whatever happened: the next send
\* follows, and the call returns after the fourth
AfterSend(k, outcome) == IF k = 4 THEN 0 ELSE k + 1

\* connect(): a client for the current target unless already connected;
\* `ok` tells whether SimpleUDPClient could be created
ConnectResult(ok) ==
    IF osc_connected THEN [connected |-> TRUE, client |-> osc_client]
    ELSE IF ok
    THEN [connected |-> TRUE,
          client |-> Some([ip |-> target_ip, port |-> target_port])]
    ELSE [connected |-> FALSE, client |-> osc_client]

\* update_target has called disconnect() and not yet returned from connect()
InSwap == upd_was_connected /\ upd_pc \in {"set_ip", "set_port", "connect"}

\* osc_client.connect()
OscConnect(oks) ==
    /\ \E ok \in oks :
         /\ osc_connected' = ConnectResult(ok).connected
         /\ osc_client' = ConnectResult(ok).client
    /\ UNCHANGED <<non_osc_vars, osc_vars>>

\* osc_client.disconnect()
OscDisconnect ==
    /\ osc_connected' = FALSE
    /\ osc_client' = None
    /\ UNCHANGED <<non_osc_vars, osc_vars>>

\* update_target(ip, port), statement by statement: was_connected is read
\* without the lock, disconnect() and connect() take it separately
UpdateTarget(ips, ports) ==
    /\ \/ /\ upd_pc = "idle"
          /\ updates < MaxUpdates
          /\ updates' = updates + 1
          /\ \E ip \in ips, port \in ports :
               /\ upd_ip' = ip
               /\ upd_port' = port
          /\ upd_was_connected' = osc_connected
          /\ upd_pc' = IF osc_connected THEN "disconnect" ELSE "set_ip"
          /\ UNCHANGED <<osc_connected, osc_client, target_ip, target_port>>
       \/ /\ upd_pc = "disconnect"
          /\ osc_connected' = FALSE
          /\ osc_client' = None
          /\ upd_pc' = "set_ip"
          /\ UNCHANGED <<target_ip, target_port, upd_was_connected, upd_ip,
                         upd_port, updates>>
       \/ /\ upd_pc = "set_ip"
          /\ target_ip' = upd_ip
          /\ upd_pc' = "set_port"
          /\ UNCHANGED <<osc_connected, osc_client, target_port,
                         upd_was_connected, upd_ip, upd_port, updates>>
       \/ /\ upd_pc = "set_port"
          /\ target_port' = upd_port
          /\ upd_pc' = IF upd_was_connected THEN "connect" ELSE "idle"
          /\ UNCHANGED <<osc_connected, osc_client, target_ip,
                         upd_was_connected, upd_ip, upd_port, updates>>
       \/ /\ upd_pc = "connect"
          /\ osc_connected' = ConnectResult(TRUE).connected
          /\ osc_client' = ConnectResult(TRUE).client
          /\ upd_pc' = "idle"
          /\ UNCHANGED <<target_ip, target_port, upd_was_connected, upd_ip,
                         upd_port, updates>>
    /\ UNCHANGED <<sjp_pc, sjp_data, sjp_connected, prompts, osc_wire,
                   osc_log>>
    /\ UNCHANGED non_osc_vars

\* a stage calls osc_client.send_json_prompt(prompt_data)
SendJsonPromptBegin(inputs) ==
    /\ sjp_pc = 0
    /\ prompts < MaxPrompts
    /\ prompts' = prompts + 1
    /\ \E d \in inputs : sjp_data' = d
    /\ sjp_connected' = osc_connected
    /\ sjp_pc' = 1
    /\ osc_wire' = <<>>
    /\ osc_log' = <<>>
    /\ UNCHANGED <<osc_connected, osc_client, target_ip, target_port, upd_pc,
                   upd_was_connected, upd_ip, upd_port, updates>>
    /\ UNCHANGED non_osc_vars

\* self.send(address, value): the next send of send_json_prompt, under the
\* lock; `raises` tells whether _client.send_message raises
OscSend(raising) ==
    /\ sjp_pc \in 1..4
    /\ \E raises \in raising :
         LET m == PromptMessages(sjp_data)[sjp_pc]
             outcome == SendOutcome(osc_connected, osc_client, raises)
         IN  /\ osc_wire' =
                   IF outcome = "not_connected" THEN osc_wire
                   ELSE Append(osc_wire, [address |-> m.address,
                                          value |-> m.value,
                                          to |-> osc_client.val])
             /\ osc_log' = Append(osc_log, [address |-> m.address,
                                            kind |-> outcome,
                                            swap |-> InSwap])
             /\ sjp_pc' = AfterSend(sjp_pc, outcome)
    /\ UNCHANGED <<osc_connected, osc_client, target_ip, target_port, upd_pc,
                   upd_was_connected, upd_ip, upd_port, updates, sjp_data,
                   sjp_connected, prompts>>
    /\ UNCHANGED non_osc_vars

\* SpecOsc: the broadcaster under the calls of its users: the UI thread
\* connects and changes the target, one after the other, the pause thread
\* disconnects, a stage thread sends prompts, with or without "style" and
\* "mood"
NextOsc ==
    \/ (upd_pc = "idle" /\ OscConnect({TRUE, FALSE}))
    \/ (upd_pc = "idle" /\ OscDisconnect)
    \/ UpdateTarget({OSC_TARGET_IP, "10.0.0.2"}, {OSC_TARGET_PORT, 9000})
    \/ SendJsonPromptBegin({[prompt |-> "neon city", style |-> "cyberpunk",
                             mood |-> "tense"],
                            [prompt |-> "calm sea"]})
    \/ OscSend({FALSE, TRUE})

SpecOsc == Init /\ [][NextOsc]_vars

\* SpecTarget: the broadcaster under calls of connect, disconnect, send and
\* update_target from different threads, in any interleaving
NextTarget ==
    \/ OscConnect({TRUE, FALSE})
    \/ OscDisconnect
    \/ UpdateTarget({OSC_TARGET_IP, "10.0.0.2"}, {OSC_TARGET_PORT, 9000})
    \/ SendJsonPromptBegin({[prompt |-> "calm sea"]})
    \/ OscSend({FALSE, TRUE})

SpecTarget == Init /\ [][NextTarget]_vars

(***************************************************************************)
(* Properties of the STT worker and of its channels                        *)
(***************************************************************************)
\* the texts of the tokens the STT worker emitted, in order
EmittedTexts == [i \in 1..Len(emitted) |-> emitted[i].text]

\* C5: every token the STT worker emits is put on the Slow channel as well
\* as on the Fast one, so that what the Slow Brain has been handed ends with
\* the emitted tokens, in order.
C5_EveryTokenOnBothChannels ==
    /\ Len(SlowReceived) >= Len(emitted)
    /\ SubSeq(SlowReceived, Len(SlowReceived) - Len(emitted) + 1,
              Len(SlowReceived)) = EmittedTexts

\* C6: the STT -> Fast Brain channel never holds more than 64 tokens.
C6_TextChannelBounded == Len(text_queue) <= 64

\* C7: the PCM queue holds at most AUDIO_QUEUE_MAXSIZE (64) frames in every
\* reachable state.
C7_PcmQueueBounded == Len(audio_queue) <= AUDIO_QUEUE_MAXSIZE

\* the callback found the PCM queue full and is about to drop its oldest
\* frame
C7_Witness ==
    /\ cb_pc = "drop"
    /\ Len(audio_queue) = AUDIO_QUEUE_MAXSIZE

\* C8: a callback that finds the PCM queue full removes the oldest queued
\* frame and enqueues the new one: the new frame is never the one given up,
\* every frame removed is older than every frame still queued, and the
\* queue stays in arrival order.
C8_DropOldestKeepsNewest ==
    /\ cb_lost = {}
    /\ \A i \in 1..Len(audio_queue) :
         /\ \A j \in 1..Len(audio_queue) :
              i < j => audio_queue[i].seq < audio_queue[j].seq
         /\ \A d \in cb_dropped : d < audio_queue[i].seq
    /\ cb_pc \in {"put", "drop", "reput"} =>
         \A i \in 1..Len(audio_queue) : audio_queue[i].seq < cb_frame.seq

\* a callback found the queue full, removed the oldest frame and its own
\* frame is now the newest of a full queue
C8_Witness ==
    /\ cb_pc = "idle"
    /\ cb_dropped # {}
    /\ Len(audio_queue) = AUDIO_QUEUE_MAXSIZE
    /\ audio_queue[Len(audio_queue)].seq = next_frame - 1
    /\ audio_queue[1].seq \notin cb_dropped

\* C9: every token the STT worker emits comes from a token id that is
\* neither 0 nor 3 and is, after the marker is replaced by a space and the
\* piece trimmed, not empty; the Fast channel and the transcription
\* callback get exactly these texts.
C9_EmittedTokensClean ==
    /\ \A i \in 1..Len(emitted) :
         /\ emitted[i].id \notin {0, 3}
         /\ emitted[i].text # <<>>
         /\ emitted[i].text = Strip(ReplaceMarker(IdToPiece(emitted[i].id)))
         /\ \A k \in 1..Len(emitted[i].text) : emitted[i].text[k] # MARKER
         /\ Head(emitted[i].text) \notin Whitespace
         /\ emitted[i].text[Len(emitted[i].text)] \notin Whitespace
    /\ transcribed = EmittedTexts
    /\ text_queue = EmittedTexts

\* the worker decoded a frame to the piece "_Hi" and emitted "Hi", and a
\* later frame went through the LM step without a token being emitted
C9_Witness ==
    /\ Len(emitted) = 1
    /\ emitted[1].id = 7
    /\ emitted[1].text = <<"H", "i">>
    /\ text_queue = <<emitted[1].text>>
    /\ Cardinality(lm_stepped) >= 2

\* C10: a frame whose peak after AGC is below GATE_THRESHOLD is discarded
\* before tokenization: it reaches neither the audio tokenizer nor the LM
\* step and no token is emitted for it.
C10_QuietFramesDiscarded ==
    /\ \A l \in tokenized \cup lm_stepped : l >= GATE_THRESHOLD
    /\ \A i \in 1..Len(emitted) : emitted[i].level >= GATE_THRESHOLD
    /\ \A l \in discarded : l < GATE_THRESHOLD
    /\ lm_stepped \subseteq tokenized

\* a frame that AGC raised to just under the threshold was discarded, and
\* one raised to exactly the threshold was tokenized
C10_Witness ==
    /\ PostAgcLevel(4999) \in discarded
    /\ PostAgcLevel(4999) > 4999
    /\ PostAgcLevel(5000) \in tokenized

(***************************************************************************)
(* Properties of the Fast Brain's consumer loop                            *)
(***************************************************************************)
\* C1: every flush of the consumer loop (the accumulation drained and handed
\* to the LLM) ends with one PromptResult given to the OSC client and to the
\* prompt callback, whatever the LLM did; when the answer was not a JSON
\* object the result is the fallback built from the flushed text.
C1_FlushAlwaysEmits ==
    (pc["fast"] = "loop" /\ fb_should_analyze /\ fb_llm_response # None) =>
        /\ fb_osc_prompt # None
        /\ fb_cb_prompt = fb_osc_prompt
        /\ fb_llm_response.val.kind # "object" =>
             fb_osc_prompt = Some(FallbackPrompt(fb_llm_text.val))

\* C2: every emission of the consumer loop coincides with a reset of the
\* accumulation: after a text was sent to the LLM and emitted, the
\* accumulation buffer is empty and its start time is None.
C2_EmissionResetsAccum ==
    (pc["fast"] = "loop" /\ fb_osc_prompt # None) =>
        /\ accumulation_buffer = <<>>
        /\ accumulation_start_time = None

(***************************************************************************)
(* Properties of the life cycle                                            *)
(***************************************************************************)
\* C3: for each stage, once stop() has been called on it the stage's thread
\* is eventually not alive (or the stage has been replaced by a new one):
\* the stop signal is never lost.
C3_StopNeverLost ==
    \A s \in Stages :
        [](stop_called[s] => <>(~Alive(s) \/ ~stop_called[s]))

\* C4: while the system is running, a stage the monitor found not alive is
\* eventually alive again (or the system is no longer running).
C4_DeadStageRestarted ==
    \A s \in Stages :
        []((is_running /\ ~is_stopping /\ s \in watch_found) =>
             <>(Alive(s) \/ ~is_running \/ is_stopping))

(***************************************************************************)
(* Properties of silence                                                   *)
(***************************************************************************)
\* C11: frames whose captured peak is below GATE_THRESHOLD produce no token:
\* every emitted token comes from a frame whose peak, as captured, is at
\* least GATE_THRESHOLD.
C11_QuietCaptureEmitsNothing ==
    \A i \in 1..Len(emitted) : emitted[i].peak >= GATE_THRESHOLD

\* C12: while the STT worker has emitted no token, the Fast Brain makes no
\* LLM call and emits no prompt, and the Slow Brain makes no LLM call,
\* whatever the number of polls and of timer ticks.
C12_NoTokenNoLlmCall ==
    (emitted = <<>> /\ stt_sent = 0) =>
        /\ pc["fast"] \notin {"analyze", "llm", "emit"}
        /\ fb_llm_text = None
        /\ fb_osc_prompt = None
        /\ fb_cb_prompt = None
        /\ summary_calls = <<>>

\* silent frames were discarded, the Fast Brain's interval and both of the
\* Slow Brain's intervals elapsed and were serviced
C12_Witness ==
    /\ emitted = <<>>
    /\ stt_sent = 0
    /\ pc["fast"] = "loop"
    /\ fb_current_time - last_analysis_time >= BRAIN_ANALYSIS_INTERVAL
    /\ fb_recent_text = <<>>
    /\ last_summary_time >= SUMMARY_INTERVAL
    /\ last_visual_time >= VISUAL_INTERVAL

(***************************************************************************)
(* Properties of the Fast Brain's accumulation                             *)
(***************************************************************************)
\* C13: at a poll that finds the accumulation buffer non-empty and
\* ACCUMULATION_TIMEOUT or more elapsed since its first token arrived, the
\* whole buffer (with the tokens the poll just drained) is flushed, however
\* short its text: it is returned for analysis and the buffer is reset.
C13_TimeoutFlushesAll ==
    [][ ( /\ pc["fast"] = "accumulate"
          /\ pc'["fast"] # "accumulate"
          /\ accumulation_buffer # <<>>
          /\ accumulation_start_time # None
          /\ fb_collect_time - accumulation_start_time.val
               >= ACCUMULATION_TIMEOUT )
        => ( /\ fb_should_analyze'
             /\ fb_recent_text' = Join(accumulation_buffer \o fb_new_texts)
             /\ accumulation_buffer' = <<>>
             /\ accumulation_start_time' = None ) ]_vars

\* a flush of a text shorter than MIN_CHAR_THRESHOLD: the timeout made it
C13_Witness ==
    /\ pc["fast"] = "analyze"
    /\ fb_should_analyze
    /\ fb_recent_text # <<>>
    /\ Len(fb_recent_text) < MIN_CHAR_THRESHOLD
    /\ accumulation_buffer = <<>>
    /\ accumulation_start_time = None

\* C14: tokens whose joined text is shorter than MIN_CHAR_THRESHOLD produce
\* no emission before ACCUMULATION_TIMEOUT elapsed since the first of them
\* arrived: a prompt emitted for such a text comes from a flush (which, for
\* a short text, only the timeout makes).
C14_ShortTextWaitsForTimeout ==
    (fb_osc_prompt # None /\ Len(fb_recent_text) < MIN_CHAR_THRESHOLD)
        => fb_should_analyze

\* C16: every emitted prompt has a non-empty prompt, style and mood.
C16_EmittedFieldsNonEmpty ==
    fb_osc_prompt # None =>
        /\ fb_osc_prompt.val.prompt # <<>>
        /\ fb_osc_prompt.val.style # ""
        /\ fb_osc_prompt.val.mood # ""

\* the burst of C15: MIN_CHAR_THRESHOLD characters and more, the last token
\* ending a sentence
Burst ==
    << <<"a", "b", "c", "d", "e", "f", "g", "h", "i", "j", "k", "l", "m",
         "n", "o">>,
       <<"o", "k", ".">> >>

\* the Fast Brain received the burst and nothing else, and silence follows
BurstReceived ==
    /\ stt_sent = Len(Burst)
    /\ text_queue = <<>>
    /\ [i \in 1..Len(text_buffer) |-> text_buffer[i][2]] = Burst

\* C15: a burst of MIN_CHAR_THRESHOLD characters or more whose last token
\* ends with ".", followed by silence, is flushed exactly once, however its
\* tokens are spread over the polls: the flush made once the burst is
\* received carries all of its tokens, no earlier flush took a part of it.
C15_BurstFlushedOnce ==
    (BurstReceived /\ pc["fast"] = "analyze" /\ fb_should_analyze)
        => fb_recent_text = Join(Burst)

(***************************************************************************)
(* Properties of the Slow Brain and of the settings                        *)
(***************************************************************************)
\* C17: the two timers of the Slow Brain are independent and its channel
\* keeps being drained: while an LLM call for one kind of summary is
\* pending, a waiting word can be consumed and the other timer, once due,
\* can be serviced.
C17_TimersIndependent ==
    /\ (pc["slow"] \in {"text_llm", "visual_llm"} /\ summary_queue # <<>>)
           => ENABLED SlowDrain
    /\ (pc["slow"] = "text_llm"
        /\ TimerDue(now, last_visual_time, VISUAL_INTERVAL))
           => ENABLED SlowVisualTimer
    /\ (pc["slow"] = "visual_llm"
        /\ TimerDue(now, last_summary_time, SUMMARY_INTERVAL))
           => ENABLED SlowTextTimer

\* C18: the start times of two LLM calls for the same kind of summary are
\* at least the interval of that kind apart (SUMMARY_INTERVAL for the text
\* summary, VISUAL_INTERVAL for the visual one).
C18_CallsAtLeastIntervalApart ==
    \A i, j \in 1..Len(summary_calls) :
        (i < j /\ summary_calls[i].kind = summary_calls[j].kind) =>
            summary_calls[j].start - summary_calls[i].start >=
                (IF summary_calls[i].kind = "text" THEN SUMMARY_INTERVAL
                 ELSE VISUAL_INTERVAL)

\* C19: before every LLM call of the Fast Brain, whatever the slider changes
\* made so far, the rate setting is at most the history setting.
C19_RateAtMostHistory ==
    pc["fast"] = "llm" => generation_rate <= history_seconds

\* C20: after reset_memory(), get_state() never returns a word that was
\* emitted before the reset.
C20_ResetForgetsOldTokens ==
    resets > 0 =>
        \A i \in 1..Len(GetSummaryState.full_transcript) :
            GetSummaryState.full_transcript[i] # <<"H", "i">>

(***************************************************************************)
(* Properties of the STT worker's failures                                 *)
(***************************************************************************)
\* C28: an exception of the tokenizer or of the LM step for one frame is
\* contained: the step that logs it emits no token, leaves the stream open
\* and the running flag as it is, and returns to the head of the loop.
C28_ChunkErrorContained ==
    [][ (chunk_errors' \ chunk_errors # {}) =>
          /\ emitted' = emitted
          /\ text_queue' = text_queue
          /\ transcribed' = transcribed
          /\ pc'["stt"] = "loop"
          /\ stream' = stream
          /\ stream = "open"
          /\ running' = running ]_vars

\* after a frame whose processing raised, a later frame yielded a token,
\* the worker still streaming
C28_Witness ==
    /\ \E e \in chunk_errors :
         \E i \in 1..Len(emitted) : emitted[i].seq > e
    /\ stream = "open"
    /\ running["stt"]
    /\ pc["stt"] \in {"loop", "get", "process"}

\* C29: once the STT worker's thread has ended it is Stopped: no stream is
\* held and is_running() is false; and a worker that reaches _cleanup
\* without a stream, the device having failed to open, logged an error.
C29_EndsStopped ==
    /\ pc["stt"] = "done" => (stream = "none" /\ ~running["stt"])
    /\ (pc["stt"] = "cleanup" /\ stream = "none") => stream_error

\* the three ways out: the device could not be opened, the loop raised,
\* stop() ended the loop
C29_Witness ==
    /\ pc["stt"] = "done"
    /\ moshi_loaded
    /\ stop_called["stt"]
    /\ ~stream_error
    /\ lm_stepped # {}

(***************************************************************************)
(* Properties of the Fast Brain's LLM call                                 *)
(***************************************************************************)
\* C30: the Fast Brain never stays blocked forever inside an LLM call: a
\* call that is pending leads to the consumer loop polling again, whether
\* the endpoint answers or not.
C30_LlmCallEnds ==
    (pc["fast"] = "llm") ~> (pc["fast"] = "loop")

(***************************************************************************)
(* Properties of pause and restart                                         *)
(***************************************************************************)
\* C23: in the first pause of a run no stage is stopped before the states
\* of both brains are captured.
C23_StatesBeforeStops ==
    (starts = 1 /\ \E s \in Stages : stop_called[s]) =>
        /\ saved_brain_state # None
        /\ saved_summary_state # None

\* C24: on a start with a captured state, the Fast Brain's consumer loop
\* has not begun as long as its saved state is still to be restored.
C24_RestoreBeforeLoop ==
    (start_pc = "summary" /\ saved_brain_state # None) =>
        pc["fast"] \in {"started", "clear_event", "init_time"}

\* s is a prefix of t
IsPrefix(s, t) == Len(s) <= Len(t) /\ SubSeq(t, 1, Len(s)) = s

C22_RestartKeepsTranscript ==
    (starts >= 2 /\ start_pc = "idle" /\ pc["slow"] # "none") =>
        IsPrefix(pause_transcript, full_transcript)

\* the first text summary after a restart was called on a transcript that
\* holds the words of before the pause
C22_Witness ==
    /\ starts = 2
    /\ pause_pc = "idle"
    /\ is_running
    /\ pause_transcript # <<>>
    /\ pc["slow"] = "text_llm"
    /\ Len(summary_calls) = 1
    /\ IsPrefix(pause_transcript, full_transcript)

(***************************************************************************)
(* Properties of the broadcaster                                           *)
(***************************************************************************)
\* C25: update_target on a connected broadcaster is atomic with respect to
\* concurrent sends: no send sees the disconnected state between its
\* disconnect() and its connect(), so at most one message is lost to the
\* swap.  Stated as its weakest consequence: of the sends of one
\* send_json_prompt call that began on a connected broadcaster, at most one
\* finds the broadcaster disconnected by the swap.
C25_SwapLosesAtMostOne ==
    sjp_connected =>
        Cardinality({i \in DOMAIN osc_log :
                       /\ osc_log[i].kind = "not_connected"
                       /\ osc_log[i].swap}) <= 1

C27_SendNeverFails ==
    [][Len(osc_log') = Len(osc_log) + 1 =>
         LET e == osc_log'[Len(osc_log')]
             usable == osc_connected /\ osc_client # None
         IN  /\ osc_connected' = osc_connected
             /\ osc_client' = osc_client
             /\ target_ip' = target_ip
             /\ target_port' = target_port
             /\ sjp_pc' = IF sjp_pc = 4 THEN 0 ELSE sjp_pc + 1
             /\ ~usable => (e.kind = "not_connected" /\ osc_wire' = osc_wire)
             /\ usable => /\ e.kind \in {"sent", "send_error"}
                          /\ Len(osc_wire') = Len(osc_wire) + 1]_vars

\* within one call: a send found the broadcaster disconnected, a later one
\* met a transport error, and the one after it was sent
C27_Witness ==
    \E i, j, k \in DOMAIN osc_log :
        /\ i < j
        /\ j < k
        /\ osc_log[i].kind = "not_connected"
        /\ osc_log[j].kind = "send_error"
        /\ osc_log[k].kind = "sent"

(***************************************************************************)
(* Properties of the Supervisor's commands                                 *)
(***************************************************************************)
\* C32: quit is available whenever no shutdown is in progress, in Idle, in
\* Running and in Paused: with no pause thread and no quit thread running
\* and the UI thread outside _start_engines, a click of the quit button is
\* accepted.
C32_QuitAvailable ==
    (pause_pc = "idle" /\ quit_pc = "idle" /\ start_pc = "idle")
        => ENABLED QuitApp

\* C31: a new STT worker is never started while a previously created one
\* has not terminated: whenever _start_engines creates and starts an
\* AudioEngine, the thread of the previous one is not alive and its input
\* stream is closed, so at most one worker and one stream exist at a time.
C31_OneSttWorker ==
    [][starts' = starts + 1 => (~Alive("stt") /\ stream = "none")]_vars

(***************************************************************************)
(* Properties of the Fast Brain's buffers                                  *)
(***************************************************************************)
\* C33: whenever the accumulation lock is not held, the accumulation start
\* time is None if and only if the accumulation buffer is empty.
C33_StartTimeIffBuffer ==
    accumulation_lock = "free" =>
        (accumulation_start_time = None <=> accumulation_buffer = <<>>)

\* the consumer loop is back at its loop test with text waiting in the
\* buffer and the time of its arrival noted
C33_Witness ==
    /\ pc["fast"] = "loop"
    /\ accumulation_lock = "free"
    /\ accumulation_buffer # <<>>
    /\ accumulation_start_time # None


\* C34: at every read of the context, the window holds exactly the tokens
\* drained within the last CONTEXT_WINDOW_SECONDS: none older, and none
\* that is still inside the window missing.  While the session is younger
\* than the window, every token drained so far is in the window that
\* _analyze_with_ollama has just read.
C34_WindowExact ==
    (pc["fast"] = "llm" /\ now < CONTEXT_WINDOW_SECONDS) =>
        Len(RecentTexts(text_buffer, now - CONTEXT_WINDOW_SECONDS))
            = stt_sent - Len(text_queue)


(***************************************************************************)
(* Properties of the Slow Brain's transcript                               *)
(***************************************************************************)
\* C35: the transcript changes only by appending at its end; it gets
\* shorter only through reset_memory, or through a stop: the engine built
\* at the next start holds, after set_state, a prefix of what the stopped
\* one held.  Neither set_state nor the generation of a summary removes or
\* replaces an entry.
C35_AppendOnly ==
    [][\/ IsPrefix(full_transcript, full_transcript')
       \/ resets' = resets + 1
       \/ /\ start_pc = "summary"
          /\ start_pc' = "idle"
          /\ IsPrefix(full_transcript', full_transcript)]_vars

\* in a session begun from a saved state a summary has been asked for and
\* the transcript then grew beyond what was restored
C35_Witness ==
    /\ starts = 2
    /\ saved_summary_state # None
    /\ summary_calls # <<>>
    /\ pc["slow"] = "loop"
    /\ Len(full_transcript) > Len(saved_summary_state.val.full_transcript)
    /\ saved_summary_state.val.full_transcript # <<>>


(***************************************************************************)
(* Properties of the Fast Brain's flushes                                  *)
(***************************************************************************)
\* C36: tokens are flushed in channel order, none dropped, duplicated or
\* reordered between dequeue and flush.  The tokens dequeued and not yet
\* flushed (the accumulation buffer, then the tokens of the poll in
\* progress) are always the last ones dequeued, in order; the critical
\* section of a poll either flushes all of them, in that order, and empties
\* the buffer, or keeps all of them, in that order.
C36_FlushedInChannelOrder ==
    [][LET dequeued == [i \in 1..Len(text_buffer') |-> text_buffer'[i][2]]
           held == accumulation_buffer' \o
                     (IF pc'["fast"] \in {"drain", "accumulate"}
                      THEN fb_new_texts' ELSE <<>>)
       IN  /\ Len(held) <= Len(dequeued)
           /\ held = SubSeq(dequeued, Len(dequeued) - Len(held) + 1,
                            Len(dequeued))
           /\ (pc["fast"] = "accumulate" /\ pc'["fast"] # "accumulate") =>
                IF fb_should_analyze'
                THEN /\ fb_recent_text' =
                          Join(accumulation_buffer \o fb_new_texts)
                     /\ accumulation_buffer' = <<>>
                ELSE accumulation_buffer' =
                          accumulation_buffer \o fb_new_texts]_vars

\* a flush that carries two tokens dequeued by two different polls, the
\* older one first
C36_Witness ==
    /\ pc["fast"] = "analyze"
    /\ fb_should_analyze
    /\ Len(text_buffer) = 2
    /\ text_buffer[1][1] < text_buffer[2][1]
    /\ text_buffer[1][2] # text_buffer[2][2]
    /\ fb_recent_text = Join(<<text_buffer[1][2], text_buffer[2][2]>>)


\* C37: whenever the broadcaster is connected, its UDP client was built for
\* the stored target_ip and target_port, under any interleaving of connect,
\* disconnect, send and update_target; stated for the moments when no
\* update_target call is in progress.
C37_SenderMatchesTarget ==
    (osc_connected /\ osc_client # None /\ upd_pc = "idle") =>
        osc_client.val = [ip |-> target_ip, port |-> target_port]


\* C38: the text stop() found in the accumulation buffer and gave to the
\* LLM in its final flush is not given to the LLM again by the consumer
\* loop: after stop()'s flush, no analysis of the loop begins on a text that
\* starts with the text stop() analysed.
C38_LeftoverSentOnce ==
    [][(stop_llm_text # None /\ pc["fast"] = "analyze"
        /\ pc'["fast"] = "llm") =>
       ~IsPrefix(stop_llm_text.val, fb_recent_text)]_vars


\* the consumer loop is about to enter "with self._accumulation_lock:"
LoopWantsAccumulationLock == pc["fast"] = "accumulate"

\* the consumer loop is about to enter "with self._buffer_lock:", in
\* _add_to_buffer or in _get_context_window
LoopWantsBufferLock ==
    \/ pc["fast"] = "drain" /\ text_queue # <<>>
    \/ pc["fast"] = "analyze"

\* C39: the two locks of the Fast Brain never deadlock: every acquisition
\* of the accumulation lock or of the context-buffer lock, by the consumer
\* loop or by stop(), is eventually granted, the LLM answering the call
\* stop() makes with the accumulation lock held.
C39_LocksGranted ==
    /\ LoopWantsAccumulationLock ~>
         (pc["fast"] = "accumulate" /\ accumulation_lock = "free")
    /\ LoopWantsBufferLock ~> (LoopWantsBufferLock /\ buffer_lock = "free")
    /\ (pause_pc = "stop_flush") ~> (pause_pc \in {"stop_context", "stop_join"})
    /\ (pause_pc = "stop_context") ~> (pause_pc = "stop_window")
    /\ [](accumulation_lock # "free" ~> accumulation_lock = "free")
    /\ [](buffer_lock # "free" ~> buffer_lock = "free")

\* stop() holds both locks while the consumer loop waits for one of them
C39_Witness ==
    /\ accumulation_lock = "stop"
    /\ buffer_lock = "stop"
    /\ (LoopWantsAccumulationLock \/ LoopWantsBufferLock)

=========================================================================
